---------------------------- MODULE Spec2Model ----------------------------
(* Supply-chain audit pipeline of npq: the check orchestration of          *)
(* BaseMarshall (lib/marshalls/baseMarshall.js) and the outbound-call      *)
(* throttle PromiseThrottler (lib/helpers/promiseThrottler.js).            *)
EXTENDS Integers, Sequences, FiniteSets, TLC

\* ------------------------------------------------------------------------
\* Bounds of the model
\* ------------------------------------------------------------------------
MaxPkgs == 3

Names == {"pkgA", "pkgB"}

DataValues == {"d1", "d2"}

Messages == {"m1", "m2"}

NoData == "undefined"

\* every array ctx.pkgs of at most MaxPkgs package strings (repeats allowed)
PkgLists == UNION {[1..n -> Names] : n \in 0..MaxPkgs}

\* what validate(pkg) can do: return data, throw a Warning, throw another Error
Outcomes ==
  {[kind |-> "return", value |-> d, message |-> "none"] : d \in DataValues}
  \cup {[kind |-> k, value |-> NoData, message |-> m] :
          k \in {"warning", "error"}, m \in Messages}

NoOutcome == [kind |-> "none", value |-> NoData, message |-> "none"]

VARIABLES
  pkgs,           \* ctx.pkgs
  runState,       \* the promise returned by run: idle, running, resolved, rejected
  task,           \* per list position: the promise returned by checkPackage
  outcome,        \* per list position: how the promise of validate settled
  validateCalls,  \* per list position: number of invocations of validate
  errors,         \* ctx.marshalls[name].errors
  warnings,       \* ctx.marshalls[name].warnings
  data            \* ctx.marshalls[name].data

marshallVars ==
  <<pkgs, runState, task, outcome, validateCalls, errors, warnings, data>>

\* PromiseThrottler
MaxOps == 3

MaxTime == 2

MaxConcurrentChoice == 2

MaxDelayChoice == 2

Ops == 1..MaxOps

VARIABLES
  maxConcurrent,  \* PromiseThrottler.maxConcurrent
  minDelay,       \* PromiseThrottler.minDelay
  runningCount,   \* PromiseThrottler.runningCount
  queue,          \* PromiseThrottler.queue, the operations in arrival order
  now,            \* Date.now()
  opState,        \* per operation: unsubmitted, queued, running, delaying, settled
  startTime,      \* per operation: time its function was invoked
  doneTime,       \* per operation: time its own promise settled
  wakeAt,         \* per operation: time the minDelay timer is due
  settleTime,     \* per operation: time the promise returned by throttle settled
  opResult,       \* per operation: how its own promise settled (ok, failed)
  promiseResult,  \* per operation: how the promise returned by throttle settled
  dispatched,     \* the operations in the order their functions were invoked
  enqueued,       \* the operations in the order they were put on the queue
  heldBy          \* per operation taken from the queue: the operation whose slot it took

throttleVars ==
  <<maxConcurrent, minDelay, runningCount, queue, now, opState, startTime,
    doneTime, wakeAt, settleTime, opResult, promiseResult, dispatched,
    enqueued, heldBy>>

\* PackageRepoUtils
MaxCalls == 3

Calls == 1..MaxCalls

\* the packuments the registry may answer with
Packuments == {"doc1", "doc2"}

VARIABLES
  pkgInfoCache,   \* PackageRepoUtils.pkgInfoCache
  call,           \* per getPackageInfo call: package, promise state, value, ...
  fetchCount      \* per package name: number of fetches issued for it

repoVars == <<pkgInfoCache, call, fetchCount>>

\* signatures.marshall.js: the registry key set
MaxChecks == 3

Checks == 1..MaxChecks

\* the key sets the registry may answer with
KeySets == {"keysV1", "keysV2", "keysV3"}

VARIABLES
  registryKeysCache,  \* the module variable registryKeysCache
  keysCall,           \* per fetchRegistryKeys call: promise state and key set
  keysFetches         \* number of fetches of the keys endpoint

keysVars == <<registryKeysCache, keysCall, keysFetches>>

\* NpmRegistry.verifySignatures
MaxSigs == 2

MaxStamp == 2

\* timestamps, in the order of Date.parse
Stamps == 0..MaxStamp

KeyIds == {"k1", "k2"}

Integrities == {"sha512-X", "sha512-Y"}

VARIABLES
  sigManifest,    \* the manifest handed to verifySignatures
  sigKeys,        \* the registry keys handed to verifySignatures
  sigNow,         \* Date.now() at the call
  sigResult,      \* how the promise of verifySignatures settled
  sigChecks       \* the checks the call made, in order: <<position, check>>

sigVars == <<sigManifest, sigKeys, sigNow, sigResult, sigChecks>>

\* NpmRegistry.verifyAttestations
VARIABLES
  attManifest,    \* the manifest handed to verifyAttestations
  attKeys,        \* the registry keys handed to verifyAttestations
  attResponse,    \* the answer of the attestations endpoint
  attNow,         \* Date.now() at the call
  attResult,      \* how the promise of verifyAttestations settled
  attVerifyLog,   \* the calls of sigstore.verify, in order
  attPc,          \* where the call waits: "fetch", "json", "verify"
  attI,           \* the position of the bundle sigstore.verify is checking
  attSubjectLog   \* what the subject check of each iteration read

attVars ==
  <<attManifest, attKeys, attResponse, attNow, attResult, attVerifyLog,
    attPc, attI, attSubjectLog>>

\* NpmRegistry.getManifest
VARIABLES
  mfSpec,         \* spec.fetchSpec of the package spec handed to getManifest
  mfResponse,     \* the answer of the packument endpoint
  mfResult,       \* how the promise of getManifest settled
  mfPc            \* where the call waits: "fetch", "json"

mfVars == <<mfSpec, mfResponse, mfResult, mfPc>>

\* the signatures check: Marshall.validate of signatures.marshall.js
VARIABLES
  svVersion,      \* pkg.packageVersion
  svKeysFetch,    \* how fetchRegistryKeys settles
  svPackument,    \* the answer of the packument endpoint
  svTampered,     \* whether the registry's signatures are tampered
  svRequested,    \* the version part of the spec handed to getManifest
  svOutcome,      \* how the promise of validate settled
  svPc,           \* where validate waits: "keys", "fetch", "json"
  svCall,         \* the number of its call of fetchRegistryKeys
  svKeys          \* the key set its .then received

svVars ==
  <<svVersion, svKeysFetch, svPackument, svTampered, svRequested, svOutcome,
    svPc, svCall, svKeys>>

\* PackageRepoUtils.getSemVer
VARIABLES
  gsVersion,      \* the packageVersion handed to getSemVer
  gsInfo,         \* the package info getPackageInfo resolves with
  gsResult,       \* how the promise of getSemVer settled
  gsPc,           \* where the call waits: "fetch", "resume"
  gsCall          \* the number of its call of getPackageInfo

gsVars == <<gsVersion, gsInfo, gsResult, gsPc, gsCall>>

\* BaseMarshall.isEnabled and the runner that lists the enabled checks
VARIABLES
  enName,         \* this.name of the check
  enEnv,          \* process.env
  enStage,        \* constructed, then skipped, or listed and then ran
  enEntry,        \* whether ctx.marshalls[name] exists
  enValidated     \* number of invocations of validate

enVars == <<enName, enEnv, enStage, enEntry, enValidated>>

\* the deprecation check: Marshall.validate of deprecation.marshall.js
VARIABLES
  dpVersion,      \* pkg.packageVersion
  dpData,         \* what getPackageInfo resolves with
  dpGitHub,       \* what the GitHub API answers about the repository
  dpResolved,     \* what resolvePackageVersion resolved with
  dpOutcome,      \* how the promise of validate settled
  dpPc,           \* where validate waits
  dpCall          \* the number of its call of getPackageInfo

dpVars ==
  <<dpVersion, dpData, dpGitHub, dpResolved, dpOutcome, dpPc, dpCall>>

\* levenshteinDistance
MaxStr == 4

MaxDistanceChoice == 4

VARIABLES
  lvA,            \* the first string
  lvB,            \* the second string
  lvMax,          \* maxDistance, or NoMax
  lvResult,       \* levenshteinDistance(a, b, maxDistance), once returned
  lvSwapped       \* levenshteinDistance(b, a, maxDistance), once returned

lvVars == <<lvA, lvB, lvMax, lvResult, lvSwapped>>

\* the age check: Marshall.validate of age.marshall.js
MaxTicks == 1

VARIABLES
  agVersion,      \* pkg.packageVersion
  agData,         \* what getPackageInfo resolves with
  agNow,          \* Date.now()
  agOutcome,      \* how the promise of validate settled
  agPc,           \* where validate waits
  agCall,         \* the number of its call of getPackageInfo
  agRead,         \* what Date.now() gave for the creation date
  agTicks         \* the milliseconds that passed since the call

agVars ==
  <<agVersion, agData, agNow, agOutcome, agPc, agCall, agRead, agTicks>>

\* the countdown prompt: autoContinue of cliPrompt.js
MaxSeconds == 3
MaxKeys == 2

VARIABLES
  acTTY,            \* process.stdin.isTTY
  acTime,           \* timeInSeconds
  acI,              \* the loop counter i
  acPc,             \* where the call waits: "sleep", "final", or "done"
  acAborted,        \* aborted
  acUserProceeded,  \* userProceeded
  acListening,      \* onKeypress is a listener of stdin 'data'
  acChunks,         \* the chunks stdin delivered to the listener, in order
  acResult          \* how the promise of autoContinue settled

acVars ==
  <<acTTY, acTime, acI, acPc, acAborted, acUserProceeded, acListening,
    acChunks, acResult>>

\* the shared instance: PromiseThrottler.instance and promiseThrottleHelper
VARIABLES
  thObjects,   \* the number of PromiseThrottler objects initialised so far
  thRefs,      \* the objects handed out by the constructor and getInstance
  thLastArgs   \* the limits passed to the latest promiseThrottleHelper call

hpVars == <<thObjects, thRefs, thLastArgs>>

\* a call of resolvePackageVersion of its own (baseMarshall.js)
VARIABLES
  rvSpec,         \* versionSpec
  rvData,         \* packageData handed in, NoPackageData for none
  rvAnswer,       \* the package data the registry answers with
  rvPc,           \* where resolvePackageVersion waits
  rvCall,         \* the number of its call of getPackageInfo
  rvResult        \* what its promise resolved with

rvVars == <<rvSpec, rvData, rvAnswer, rvPc, rvCall, rvResult>>

vars ==
  <<marshallVars, throttleVars, repoVars, keysVars, sigVars, attVars, mfVars,
    svVars, gsVars, enVars, dpVars, lvVars, agVars, acVars, hpVars, rvVars>>

otherThanMarshall ==
  <<throttleVars, repoVars, keysVars, sigVars, attVars, mfVars, svVars,
    gsVars, enVars, dpVars, lvVars, agVars, acVars, hpVars, rvVars>>

otherThanThrottle ==
  <<marshallVars, repoVars, keysVars, sigVars, attVars, mfVars, svVars,
    gsVars, enVars, dpVars, lvVars, agVars, acVars, hpVars, rvVars>>

otherThanRepo ==
  <<marshallVars, throttleVars, keysVars, sigVars, attVars, mfVars, svVars,
    gsVars, enVars, dpVars, lvVars, agVars, acVars, hpVars, rvVars>>

otherThanKeys ==
  <<marshallVars, throttleVars, repoVars, sigVars, attVars, mfVars, svVars,
    gsVars, enVars, dpVars, lvVars, agVars, acVars, hpVars, rvVars>>

otherThanSig ==
  <<marshallVars, throttleVars, repoVars, keysVars, attVars, mfVars, svVars,
    gsVars, enVars, dpVars, lvVars, agVars, acVars, hpVars, rvVars>>

otherThanAtt ==
  <<marshallVars, throttleVars, repoVars, keysVars, sigVars, mfVars, svVars,
    gsVars, enVars, dpVars, lvVars, agVars, acVars, hpVars, rvVars>>

otherThanManifest ==
  <<marshallVars, throttleVars, repoVars, keysVars, sigVars, attVars, svVars,
    gsVars, enVars, dpVars, lvVars, agVars, acVars, hpVars, rvVars>>

otherThanSigCheck ==
  <<marshallVars, throttleVars, repoVars, keysVars, sigVars, attVars, mfVars,
    gsVars, enVars, dpVars, lvVars, agVars, acVars, hpVars, rvVars>>

otherThanSemVer ==
  <<marshallVars, throttleVars, repoVars, keysVars, sigVars, attVars, mfVars,
    svVars, enVars, dpVars, lvVars, agVars, acVars, hpVars, rvVars>>

otherThanEnable ==
  <<marshallVars, throttleVars, repoVars, keysVars, sigVars, attVars, mfVars,
    svVars, gsVars, dpVars, lvVars, agVars, acVars, hpVars, rvVars>>

otherThanDeprecation ==
  <<marshallVars, throttleVars, repoVars, keysVars, sigVars, attVars, mfVars,
    svVars, gsVars, enVars, lvVars, agVars, acVars, hpVars, rvVars>>

otherThanLevenshtein ==
  <<marshallVars, throttleVars, repoVars, keysVars, sigVars, attVars, mfVars,
    svVars, gsVars, enVars, dpVars, agVars, acVars, hpVars, rvVars>>

otherThanAge ==
  <<marshallVars, throttleVars, repoVars, keysVars, sigVars, attVars, mfVars,
    svVars, gsVars, enVars, dpVars, lvVars, acVars, hpVars, rvVars>>

otherThanAutoContinue ==
  <<marshallVars, throttleVars, repoVars, keysVars, sigVars, attVars, mfVars,
    svVars, gsVars, enVars, dpVars, lvVars, agVars, hpVars, rvVars>>

otherThanHelper ==
  <<marshallVars, throttleVars, repoVars, keysVars, sigVars, attVars, mfVars,
    svVars, gsVars, enVars, dpVars, lvVars, agVars, acVars, rvVars>>

otherThanRepoAndSemVer ==
  <<marshallVars, throttleVars, keysVars, sigVars, attVars, mfVars, svVars,
    enVars, dpVars, lvVars, agVars, acVars, hpVars, rvVars>>

otherThanRepoAndDeprecation ==
  <<marshallVars, throttleVars, keysVars, sigVars, attVars, mfVars, svVars,
    gsVars, enVars, lvVars, agVars, acVars, hpVars, rvVars>>

otherThanRepoAndAge ==
  <<marshallVars, throttleVars, keysVars, sigVars, attVars, mfVars, svVars,
    gsVars, enVars, dpVars, lvVars, acVars, hpVars, rvVars>>

otherThanRepoAndResolve ==
  <<marshallVars, throttleVars, keysVars, sigVars, attVars, mfVars, svVars,
    gsVars, enVars, dpVars, lvVars, agVars, acVars, hpVars>>

otherThanKeysAndSigCheck ==
  <<marshallVars, throttleVars, repoVars, sigVars, attVars, mfVars, gsVars,
    enVars, dpVars, lvVars, agVars, acVars, hpVars, rvVars>>

otherThanThrottleAndHelper ==
  <<marshallVars, repoVars, keysVars, sigVars, attVars, mfVars, svVars,
    gsVars, enVars, dpVars, lvVars, agVars, acVars, rvVars>>

otherThanResolve ==
  <<marshallVars, throttleVars, repoVars, keysVars, sigVars, attVars, mfVars,
    svVars, gsVars, enVars, dpVars, lvVars, agVars, acVars, hpVars>>

Units == DOMAIN pkgs

\* ------------------------------------------------------------------------
\* BaseMarshall
\* ------------------------------------------------------------------------

\* variant: the test holds for every thrown error
IsWarningAlways(o) == TRUE

\* err instanceof Warning
IsWarning(o) == o.kind = "warning"

\* variant: the errors list receives the message of a warning as well
setMessageNoElse(errs, warns, msg, isWarning) ==
  [errors |-> Append(errs, msg),
   warnings |-> IF isWarning THEN Append(warns, msg) ELSE warns]

\* setMessage(msg, isWarning): push onto the warnings or onto the errors list
setMessage(errs, warns, msg, isWarning) ==
  IF isWarning
    THEN [errors |-> errs, warnings |-> Append(warns, msg)]
    ELSE [errors |-> Append(errs, msg), warnings |-> warns]

\* variant: no .catch handler, a throw of validate rejects the task
checkPackageNoCatch(pkg, o, errs, warns, dat) ==
  IF o.kind = "return"
    THEN [errors |-> errs, warnings |-> warns,
          data |-> [dat EXCEPT ![pkg] = o.value], promise |-> "fulfilled"]
    ELSE [errors |-> errs, warnings |-> warns, data |-> dat,
          promise |-> "rejected"]

\* the .then / .catch handlers of checkPackage, run on the settled promise of
\* validate; promise is the state of the promise checkPackage returned
checkPackage(pkg, o, errs, warns, dat) ==
  IF o.kind = "return"
    THEN [errors |-> errs, warnings |-> warns,
          data |-> [dat EXCEPT ![pkg] = o.value], promise |-> "fulfilled"]
    ELSE LET m == setMessage(errs, warns,
                             [pkg |-> pkg, message |-> o.message], IsWarning(o))
         IN [errors |-> m.errors, warnings |-> m.warnings,
             data |-> dat, promise |-> "fulfilled"]

\* variant: an empty list of tasks never settles
PromiseAllNeedsTask(tasks) ==
  IF \E i \in DOMAIN tasks : tasks[i] = "rejected" THEN "rejected"
  ELSE IF tasks # <<>> /\ \A i \in DOMAIN tasks : tasks[i] = "fulfilled"
    THEN "resolved"
  ELSE "pending"

\* variant: Promise.race, settled with the first task that is
PromiseRace(tasks) ==
  IF \E i \in DOMAIN tasks : tasks[i] = "rejected" THEN "rejected"
  ELSE IF \E i \in DOMAIN tasks : tasks[i] = "fulfilled" THEN "resolved"
  ELSE "pending"

\* Promise.all(tasks): rejected as soon as one task is rejected, resolved once
\* all tasks are fulfilled, pending otherwise
PromiseAll(tasks) ==
  IF \E i \in DOMAIN tasks : tasks[i] = "rejected" THEN "rejected"
  ELSE IF \A i \in DOMAIN tasks : tasks[i] = "fulfilled" THEN "resolved"
  ELSE "pending"

\* init(ctx): the empty result record of the check
InitMarshall ==
  /\ pkgs \in PkgLists
  /\ runState = "idle"
  /\ task = [i \in DOMAIN pkgs |-> "none"]
  /\ outcome = [i \in DOMAIN pkgs |-> NoOutcome]
  /\ validateCalls = [i \in DOMAIN pkgs |-> 0]
  /\ errors = <<>>
  /\ warnings = <<>>
  /\ data = [n \in Names |-> NoData]

\* run(ctx): the reduce calls checkPackage, hence validate, for every package
\* of the list before Promise.all is built
run ==
  /\ runState = "idle"
  /\ runState' = "running"
  /\ validateCalls' = [i \in Units |-> validateCalls[i] + 1]
  /\ task' = [i \in Units |-> "pending"]
  /\ UNCHANGED <<pkgs, outcome, errors, warnings, data>>
  /\ UNCHANGED otherThanMarshall

\* the promise returned by validate(pkg) settles
validate(i, o) ==
  /\ runState = "running"
  /\ task[i] = "pending"
  /\ outcome[i] = NoOutcome
  /\ outcome' = [outcome EXCEPT ![i] = o]
  /\ UNCHANGED <<pkgs, runState, task, validateCalls, errors, warnings, data>>
  /\ UNCHANGED otherThanMarshall

\* the handler of checkPackage runs for a settled validate
checkPackageSettles(i) ==
  /\ task[i] = "pending"
  /\ outcome[i] # NoOutcome
  /\ LET r == checkPackage(pkgs[i], outcome[i], errors, warnings, data)
     IN /\ errors' = r.errors
        /\ warnings' = r.warnings
        /\ data' = r.data
        /\ task' = [task EXCEPT ![i] = r.promise]
  /\ UNCHANGED <<pkgs, runState, outcome, validateCalls>>
  /\ UNCHANGED otherThanMarshall

\* the promise returned by run settles
runSettles ==
  /\ runState = "running"
  /\ PromiseAll(task) # "pending"
  /\ runState' = PromiseAll(task)
  /\ UNCHANGED <<pkgs, task, outcome, validateCalls, errors, warnings, data>>
  /\ UNCHANGED otherThanMarshall

\* ------------------------------------------------------------------------
\* PromiseThrottler
\* ------------------------------------------------------------------------
DefaultMaxConcurrent == 5

DefaultMinDelay == 0

NoTime == -1

\* the state of a throttler on which nothing was submitted yet
ThrottlerConstructed(mc, d) ==
  /\ maxConcurrent = mc
  /\ minDelay = d
  /\ runningCount = 0
  /\ queue = <<>>
  /\ now = 0
  /\ opState = [o \in Ops |-> "unsubmitted"]
  /\ startTime = [o \in Ops |-> NoTime]
  /\ doneTime = [o \in Ops |-> NoTime]
  /\ wakeAt = [o \in Ops |-> NoTime]
  /\ settleTime = [o \in Ops |-> NoTime]
  /\ opResult = [o \in Ops |-> "none"]
  /\ promiseResult = [o \in Ops |-> "none"]
  /\ dispatched = <<>>
  /\ enqueued = <<>>
  /\ heldBy = [o \in Ops |-> 0]

\* variant: off by one in the capacity test
hasCapacityOffByOne(rc, mc) == rc <= mc

\* variant: no capacity test
hasCapacityAlways(rc, mc) == TRUE

\* variant: every submission is put on the queue
hasCapacityNever(rc, mc) == FALSE

\* a slot is free
hasCapacity(rc, mc) == rc < mc

\* variant: queue.pop(), the newest entry first
queuePop(q) == [item |-> q[Len(q)], rest |-> SubSeq(q, 1, Len(q) - 1)]

\* queue.shift(): the operation to dispatch next and the rest of the queue
queueShift(q) == [item |-> Head(q), rest |-> Tail(q)]

\* variant: the promise settles without the wait
delayNeededNever(elapsed, d) == FALSE

\* the operation's elapsed time is short of minDelay: wait before settling
delayNeeded(elapsed, d) == elapsed < d

\* variant: the wait is one unit short
timerDelayShort(elapsed, d) == d - elapsed - 1

\* the remaining wait handed to the timer
timerDelay(elapsed, d) == d - elapsed

\* variant: only a successful operation gives up its slot
releaseSlotOnSuccess(rc, result) == IF result = "ok" THEN rc - 1 ELSE rc

\* the running count once an operation that settled with `result` gave up its slot
releaseSlot(rc, result) == rc - 1

\* the function of an operation was invoked
Invoked(o) == opState[o] \in {"running", "delaying", "settled"}

\* what throttle does with op under the limit mc: dispatch at once if a slot
\* is free, else enqueue
submit(o, mc) ==
  IF hasCapacity(runningCount, mc)
    THEN /\ runningCount' = runningCount + 1
         /\ opState' = [opState EXCEPT ![o] = "running"]
         /\ startTime' = [startTime EXCEPT ![o] = now]
         /\ dispatched' = Append(dispatched, o)
         /\ UNCHANGED <<queue, enqueued>>
    ELSE /\ queue' = Append(queue, o)
         /\ enqueued' = Append(enqueued, o)
         /\ opState' = [opState EXCEPT ![o] = "queued"]
         /\ UNCHANGED <<runningCount, startTime, dispatched>>

\* throttle(op): dispatch at once if a slot is free, else enqueue
throttle(o) ==
  /\ opState[o] = "unsubmitted"
  /\ \A p \in Ops : p < o => opState[p] # "unsubmitted"
  /\ submit(o, maxConcurrent)
  /\ UNCHANGED <<maxConcurrent, minDelay, now, doneTime, wakeAt, settleTime,
                 opResult, promiseResult, heldBy>>
  /\ UNCHANGED otherThanThrottle

\* the promise returned by throttle for o settles with `result`, o gives up
\* its slot and the next queued operation, if any, is dispatched
release(o, result) ==
  LET rc == releaseSlot(runningCount, result)
  IN /\ settleTime' = [settleTime EXCEPT ![o] = now]
     /\ promiseResult' = [promiseResult EXCEPT ![o] = result]
     /\ IF Len(queue) > 0 /\ hasCapacity(rc, maxConcurrent)
          THEN LET s == queueShift(queue)
               IN /\ queue' = s.rest
                  /\ runningCount' = rc + 1
                  /\ opState' = [opState EXCEPT ![o] = "settled",
                                                 ![s.item] = "running"]
                  /\ startTime' = [startTime EXCEPT ![s.item] = now]
                  /\ dispatched' = Append(dispatched, s.item)
                  /\ heldBy' = [heldBy EXCEPT ![s.item] = o]
          ELSE /\ runningCount' = rc
               /\ opState' = [opState EXCEPT ![o] = "settled"]
               /\ UNCHANGED <<queue, startTime, dispatched, heldBy>>

\* the promise of the operation's own function settles (ok or failed)
opCompletes(o, result) ==
  /\ opState[o] = "running"
  /\ doneTime' = [doneTime EXCEPT ![o] = now]
  /\ opResult' = [opResult EXCEPT ![o] = result]
  /\ IF delayNeeded(now - startTime[o], minDelay)
       THEN /\ opState' = [opState EXCEPT ![o] = "delaying"]
            /\ wakeAt' = [wakeAt EXCEPT ![o] =
                            now + timerDelay(now - startTime[o], minDelay)]
            /\ UNCHANGED <<runningCount, queue, startTime, settleTime,
                           promiseResult, dispatched, heldBy>>
       ELSE /\ release(o, result)
            /\ UNCHANGED wakeAt
  /\ UNCHANGED <<maxConcurrent, minDelay, now, enqueued>>
  /\ UNCHANGED otherThanThrottle

\* variant: the result of the operation submitted first
resultOfFirst(results, o) == results[1]

\* what the wrapper passes to resolve or reject once the wait is over: the
\* value or error of the operation's own promise
resultAfterDelay(results, o) == results[o]

\* the minDelay timer of a completed operation fires
delayElapses(o) ==
  /\ opState[o] = "delaying"
  /\ now >= wakeAt[o]
  /\ release(o, resultAfterDelay(opResult, o))
  /\ UNCHANGED <<maxConcurrent, minDelay, now, doneTime, wakeAt, opResult,
                 enqueued>>
  /\ UNCHANGED otherThanThrottle

\* time passes
tick ==
  /\ now < MaxTime
  /\ now' = now + 1
  /\ UNCHANGED <<maxConcurrent, minDelay, runningCount, queue, opState,
                 startTime, doneTime, wakeAt, settleTime, opResult,
                 promiseResult, dispatched, enqueued, heldBy>>
  /\ UNCHANGED otherThanThrottle

\* time passes, until MaxTime and on to the last pending minDelay timer
timePasses ==
  /\ \/ now < MaxTime
     \/ \E o \in Ops : opState[o] = "delaying" /\ wakeAt[o] > now
  /\ now' = now + 1
  /\ UNCHANGED <<maxConcurrent, minDelay, runningCount, queue, opState,
                 startTime, doneTime, wakeAt, settleTime, opResult,
                 promiseResult, dispatched, enqueued, heldBy>>
  /\ UNCHANGED otherThanThrottle

MarshallIdle ==
  /\ pkgs = <<>>
  /\ runState = "idle"
  /\ task = <<>>
  /\ outcome = <<>>
  /\ validateCalls = <<>>
  /\ errors = <<>>
  /\ warnings = <<>>
  /\ data = [n \in Names |-> NoData]

\* ------------------------------------------------------------------------
\* PackageRepoUtils.getPackageInfo
\* ------------------------------------------------------------------------
NoCall == [pkg |-> "none", state |-> "unissued", value |-> NoData,
           fetched |-> FALSE, after |-> {}]

\* constructor: this.pkgInfoCache = {}
RepoConstructed ==
  /\ pkgInfoCache = [n \in Names |-> NoData]
  /\ call = [c \in Calls |-> NoCall]
  /\ fetchCount = [n \in Names |-> 0]

\* a registry answer that decodes to null
NullData == "null"

\* if (this.pkgInfoCache[pkg])
cacheHit(cache, p) == cache[p] \notin {NoData, NullData}

\* the calls that have completed with data
Completed == {c \in Calls : call[c].state = "done"}

\* the body of getPackageInfo(pkg) for the call numbered c
getPackageInfoBody(c, p) ==
  /\ call[c].state = "unissued"
  /\ \A b \in Calls : b < c => call[b].state # "unissued"
  /\ IF cacheHit(pkgInfoCache, p)
       THEN /\ call' = [call EXCEPT ![c] =
                          [pkg |-> p, state |-> "done", value |-> pkgInfoCache[p],
                           fetched |-> FALSE, after |-> Completed]]
            /\ UNCHANGED fetchCount
       ELSE /\ call' = [call EXCEPT ![c] =
                          [pkg |-> p, state |-> "fetching", value |-> NoData,
                           fetched |-> TRUE, after |-> Completed]]
            /\ fetchCount' = [fetchCount EXCEPT ![p] = @ + 1]
  /\ UNCHANGED pkgInfoCache

\* getPackageInfo(pkg): the cached value, or a fetch of the packument
getPackageInfo(c, p) ==
  /\ getPackageInfoBody(c, p)
  /\ UNCHANGED otherThanRepo

\* the .then handlers of the fetch of call c: the decoded answer is stored
fetchThen(c, d) ==
  /\ call[c].state = "fetching"
  /\ pkgInfoCache' = [pkgInfoCache EXCEPT ![call[c].pkg] = d]
  /\ call' = [call EXCEPT ![c].state = "done", ![c].value = d]
  /\ UNCHANGED fetchCount

\* the fetch of call c answered and its JSON decoded: the .then handlers
fetchResolves(c, d) ==
  /\ fetchThen(c, d)
  /\ UNCHANGED otherThanRepo

\* the number of the next call of getPackageInfo
nextCall ==
  CHOOSE c \in Calls :
    /\ call[c].state = "unissued"
    /\ \A b \in Calls : b < c => call[b].state # "unissued"

\* an earlier check of the run has fetched package p, the registry
\* answering with the object d
PackageFetchedBefore(p, d) ==
  /\ pkgInfoCache = [n \in Names |-> IF n = p THEN d ELSE NoData]
  /\ call = [c \in Calls |->
               IF c = 1 THEN [pkg |-> p, state |-> "done", value |-> d,
                              fetched |-> TRUE, after |-> {}]
               ELSE NoCall]
  /\ fetchCount = [n \in Names |-> IF n = p THEN 1 ELSE 0]

\* the fetch of call c, or the decoding of its answer, failed
fetchRejects(c) ==
  /\ call[c].state = "fetching"
  /\ call' = [call EXCEPT ![c].state = "rejected"]
  /\ UNCHANGED <<pkgInfoCache, fetchCount>>
  /\ UNCHANGED otherThanRepo

\* ------------------------------------------------------------------------
\* signatures.marshall.js: fetchRegistryKeys
\* ------------------------------------------------------------------------
NoKeys == "null"

NoKeysCall == [state |-> "unissued", keys |-> NoKeys, fetched |-> FALSE]

\* let registryKeysCache = null
KeysModuleLoaded ==
  /\ registryKeysCache = NoKeys
  /\ keysCall = [k \in Checks |-> NoKeysCall]
  /\ keysFetches = 0

\* the body of fetchRegistryKeys() for the call numbered k
fetchRegistryKeysBody(k) ==
  /\ keysCall[k].state = "unissued"
  /\ \A b \in Checks : b < k => keysCall[b].state # "unissued"
  /\ IF registryKeysCache # NoKeys
       THEN /\ keysCall' = [keysCall EXCEPT ![k] =
                 [state |-> "done", keys |-> registryKeysCache, fetched |-> FALSE]]
            /\ UNCHANGED keysFetches
       ELSE /\ keysCall' = [keysCall EXCEPT ![k] =
                 [state |-> "fetching", keys |-> NoKeys, fetched |-> TRUE]]
            /\ keysFetches' = keysFetches + 1
  /\ UNCHANGED registryKeysCache

\* fetchRegistryKeys(): the cached key set, or a fetch of the keys endpoint
fetchRegistryKeys(k) ==
  /\ fetchRegistryKeysBody(k)
  /\ UNCHANGED otherThanKeys

\* the .then handlers of the fetch of call k: the key set is stored
keysThen(k, ks) ==
  /\ keysCall[k].state = "fetching"
  /\ registryKeysCache' = ks
  /\ keysCall' = [keysCall EXCEPT ![k].state = "done", ![k].keys = ks]
  /\ UNCHANGED keysFetches

\* the keys endpoint answered call k: the .then handlers store the key set
keysFetchResolves(k, ks) ==
  /\ keysThen(k, ks)
  /\ UNCHANGED otherThanKeys

\* the .catch handler of the fetch of call k throws a Warning
keysCatch(k) ==
  /\ keysCall[k].state = "fetching"
  /\ keysCall' = [keysCall EXCEPT ![k].state = "warning"]
  /\ UNCHANGED <<registryKeysCache, keysFetches>>

\* the fetch of call k failed: the .catch handler throws a Warning
keysFetchRejects(k) ==
  /\ keysCatch(k)
  /\ UNCHANGED otherThanKeys

\* ------------------------------------------------------------------------
\* NpmRegistry.verifySignatures
\* ------------------------------------------------------------------------

\* MISSING_TIME_CUTOFF, as a timestamp of the model
MISSING_TIME_CUTOFF == 1

\* manifest._id
PackageId == "pkg@1.0.0"

\* a registry key: pemkey names the key pair, expires is NoTime when absent
RegistryKey(id, exp) == [keyid |-> id, pemkey |-> id, expires |-> exp]

\* marks a keyid the registry has no key for
AbsentKey == -2

\* the key lists of the registry: distinct keyids, each with or without expiry
KeyLists ==
  {LET ids == SelectSeq(<<"k1", "k2">>, LAMBDA k : f[k] # AbsentKey)
   IN [i \in DOMAIN ids |-> RegistryKey(ids[i], f[ids[i]])] :
     f \in [KeyIds -> {AbsentKey, NoTime} \cup Stamps]}

\* a dist signature: keyid and the bytes sig; the bytes are described by the
\* key pair that produced them and the message they were produced over
DistSignatures ==
  {[keyid |-> k, sig |-> [by |-> b, over |-> <<PackageId, "sha512-X">>]] :
     k \in KeyIds, b \in KeyIds}

SignatureLists == UNION {[1..n -> DistSignatures] : n \in 0..MaxSigs}

\* manifests: dist and dist.signatures may be missing, _time may be missing
Manifests ==
  {[id |-> PackageId, time |-> t,
    dist |-> [present |-> d, integrity |-> g, hasSignatures |-> h,
              signatures |-> l]] :
     t \in {NoTime} \cup Stamps, g \in Integrities,
     d \in {TRUE}, h \in {TRUE}, l \in SignatureLists}
  \cup
  {[id |-> PackageId, time |-> t,
    dist |-> [present |-> d, integrity |-> g, hasSignatures |-> FALSE,
              signatures |-> <<>>]] :
     t \in {NoTime} \cup Stamps, g \in Integrities, d \in BOOLEAN}

NotCalled == [status |-> "notCalled", value |-> <<>>]

Thrown(code) == [status |-> code, value |-> <<>>]

\* variant: the first key of the list, whatever its keyid
findKeyFirst(keys, keyid) == IF Len(keys) > 0 THEN 1 ELSE 0

\* registryKeys.find((key) => key.keyid === keyid): index of the first match, 0 if none
findKey(keys, keyid) ==
  IF \E i \in DOMAIN keys : keys[i].keyid = keyid
    THEN CHOOSE i \in DOMAIN keys :
           keys[i].keyid = keyid /\ \A j \in 1..(i - 1) : keys[j].keyid # keyid
    ELSE 0

\* `${manifest._id}:${manifest.dist.integrity}`
signedMessage(manifest) == <<manifest.id, manifest.dist.integrity>>

\* variant: the current time stands in for the publish time
publishedTimeNow(manifest, nowStamp) == nowStamp

\* Date.parse(manifest._time || MISSING_TIME_CUTOFF)
publishedTime(manifest, nowStamp) ==
  IF manifest.time # NoTime THEN manifest.time ELSE MISSING_TIME_CUTOFF

\* !publicKey.expires || time < Date.parse(publicKey.expires)
validPublicKey(key, time) == key.expires = NoTime \/ time < key.expires

\* variant: the message is not compared
cryptoVerifyKeyOnly(pemkey, message, sig) == sig.by = pemkey

\* verifier.verify(publicKey.pemkey, signature.sig, 'base64') over message
cryptoVerify(pemkey, message, sig) == sig.by = pemkey /\ sig.over = message

\* the checks of the loop body for one signature: "ok" or the code thrown
checkSignature(manifest, keys, signature, nowStamp) ==
  LET k == findKey(keys, signature.keyid)
  IN IF k = 0 THEN "EMISSINGSIGNATUREKEY"
     ELSE IF ~validPublicKey(keys[k], publishedTime(manifest, nowStamp))
       THEN "EEXPIREDSIGNATUREKEY"
     ELSE IF ~cryptoVerify(keys[k].pemkey, signedMessage(manifest), signature.sig)
       THEN "EINTEGRITYSIGNATURE"
     ELSE "ok"

\* variant: the loop goes on after a failure and the last one is thrown
RECURSIVE signatureLoopLast(_, _, _, _)
signatureLoopLast(manifest, keys, i, nowStamp) ==
  IF i > Len(manifest.dist.signatures) THEN "ok"
  ELSE LET r == checkSignature(manifest, keys, manifest.dist.signatures[i], nowStamp)
           later == signatureLoopLast(manifest, keys, i + 1, nowStamp)
       IN IF later # "ok" THEN later ELSE r

\* for (const signature of signatures): the first code thrown from position i on
RECURSIVE signatureLoop(_, _, _, _)
signatureLoop(manifest, keys, i, nowStamp) ==
  IF i > Len(manifest.dist.signatures) THEN "ok"
  ELSE LET r == checkSignature(manifest, keys, manifest.dist.signatures[i], nowStamp)
       IN IF r # "ok" THEN r ELSE signatureLoop(manifest, keys, i + 1, nowStamp)

\* the checks of the loop body that ran for the signature at position i,
\* given how they ended: the key lookup, the expiry test, verifier.verify
checksOf(i, r) ==
  IF r = "EMISSINGSIGNATUREKEY" THEN << <<i, "find">> >>
  ELSE IF r = "EEXPIREDSIGNATUREKEY" THEN << <<i, "find">>, <<i, "expiry">> >>
  ELSE << <<i, "find">>, <<i, "expiry">>, <<i, "verify">> >>

\* the checks the loop makes from position i on: it ends at the first throw
RECURSIVE checksLoop(_, _, _, _)
checksLoop(manifest, keys, i, nowStamp) ==
  IF i > Len(manifest.dist.signatures) THEN <<>>
  ELSE LET r == checkSignature(manifest, keys, manifest.dist.signatures[i], nowStamp)
       IN checksOf(i, r) \o
            (IF r # "ok" THEN <<>>
             ELSE checksLoop(manifest, keys, i + 1, nowStamp))

\* the checks a call of verifySignatures makes
checksMade(manifest, keys, nowStamp) ==
  IF ~manifest.dist.present \/ ~manifest.dist.hasSignatures THEN <<>>
  ELSE checksLoop(manifest, keys, 1, nowStamp)

\* verifySignatures(manifest, registryKeys)
verifySignatures(manifest, keys, nowStamp) ==
  IF ~manifest.dist.present \/ ~manifest.dist.hasSignatures
    THEN Thrown("no signatures")
  ELSE LET r == signatureLoop(manifest, keys, 1, nowStamp)
       IN IF r # "ok" THEN Thrown(r)
          ELSE [status |-> "ok",
                value |-> <<manifest, manifest.dist.signatures>>]

SigIdle ==
  /\ sigManifest = [id |-> PackageId, time |-> NoTime,
                    dist |-> [present |-> FALSE, integrity |-> "sha512-X",
                              hasSignatures |-> FALSE, signatures |-> <<>>]]
  /\ sigKeys = <<>>
  /\ sigNow = 0
  /\ sigResult = NotCalled
  /\ sigChecks = <<>>

\* a call of verifySignatures settles
verifySignaturesCall ==
  /\ sigResult = NotCalled
  /\ sigResult' = verifySignatures(sigManifest, sigKeys, sigNow)
  /\ sigChecks' = checksMade(sigManifest, sigKeys, sigNow)
  /\ UNCHANGED <<sigManifest, sigKeys, sigNow>>
  /\ UNCHANGED otherThanSig

\* ------------------------------------------------------------------------
\* NpmRegistry.verifyAttestations
\* ------------------------------------------------------------------------

PackageName == "pkg"

PackageVersion == "1.0.0"

\* another version of the package
OtherVersion == "2.0.0"

\* a bundle without a keyid
NoKeyId == ""

\* keySelector: undefined
NoSelector == "undefined"

\* npa.toPurl(npa(`${name}@${version}`))
toPurl(name, version) == [type |-> "pkg:npm", name |-> name, version |-> version]

\* ssri.parse(integrity).hexDigest()
hexDigest(integrity) ==
  CASE integrity = "sha512-X" -> "58"
    [] integrity = "sha512-Y" -> "59"

\* statement.subject[0] of a bundle
Subjects ==
  {[name |-> toPurl(PackageName, PackageVersion), sha512 |-> "58"],
   [name |-> toPurl(PackageName, OtherVersion), sha512 |-> "58"],
   [name |-> toPurl(PackageName, PackageVersion), sha512 |-> "59"]}

\* tlogEntries[0].integratedTime of a bundle
IntegratedTimes == {0, MaxStamp}

\* one attestation of the response: keyid of the first envelope signature,
\* subject of the statement, integrated time, and whether sigstore accepts it
Bundles ==
  [keyid : KeyIds \cup {NoKeyId}, subject : Subjects,
   integratedTime : IntegratedTimes, proofOk : BOOLEAN]

BundleLists == UNION {[1..n -> Bundles] : n \in 0..MaxSigs}

\* registry keys of the attestation calls: k1 without or with an expiry, k2
AttKeyLists ==
  {<<>>, <<RegistryKey("k1", NoTime)>>,
   <<RegistryKey("k1", MISSING_TIME_CUTOFF)>>,
   <<RegistryKey("k2", NoTime)>>,
   <<RegistryKey("k1", NoTime), RegistryKey("k2", NoTime)>>,
   <<RegistryKey("k1", MISSING_TIME_CUTOFF), RegistryKey("k2", NoTime)>>}

AttManifest(t, hasDist, hasAtt) ==
  [id |-> PackageId, name |-> PackageName, version |-> PackageVersion,
   time |-> t,
   dist |-> [present |-> hasDist, integrity |-> "sha512-X",
             hasAttestations |-> hasAtt, attestations |-> "url"]]

Response(ok, list) == [ok |-> ok, attestations |-> list]

\* bundles.map((b) => b.keyid).filter((k) => !!k)
attestationKeyIds(bundles) ==
  {bundles[i].keyid : i \in {j \in DOMAIN bundles : bundles[j].keyid # NoKeyId}}

\* registryKeys.filter((key) => attestationKeyIds.includes(key.keyid))
attestationRegistryKeys(keys, bundles) ==
  SelectSeq(keys, LAMBDA key : key.keyid \in attestationKeyIds(bundles))

\* variant: the publish time of the manifest stands in for the integrated time
integratedTimePublish(manifest, bundle) == manifest.time

\* new Date(Number(tlogEntries[0].integratedTime) * 1000)
integratedTime(manifest, bundle) == bundle.integratedTime

\* the key checks of a bundle that carries a keyid
keyCheck(manifest, rkeys, bundle) ==
  LET k == findKey(rkeys, bundle.keyid)
  IN IF bundle.keyid = NoKeyId THEN "ok"
     ELSE IF k = 0 THEN "EMISSINGSIGNATUREKEY"
     ELSE IF ~validPublicKey(rkeys[k], integratedTime(manifest, bundle))
       THEN "EEXPIREDSIGNATUREKEY"
     ELSE "ok"

\* variant: the digest is not compared
subjectMatchesNameOnly(manifest, bundle) ==
  bundle.subject.name = toPurl(manifest.name, manifest.version)

\* subject.name === purl and subject.sha512 === integrityHexDigest
subjectMatches(manifest, bundle) ==
  /\ bundle.subject.name = toPurl(manifest.name, manifest.version)
  /\ bundle.subject.sha512 = hexDigest(manifest.dist.integrity)

\* variant: a key is always selected
keySelectorFirstKey(rkeys, k) == rkeys[IF k # 0 THEN k ELSE 1].pemkey

\* keySelector: publicKey ? () => publicKey.pemkey : undefined
keySelector(rkeys, k) == IF k # 0 THEN rkeys[k].pemkey ELSE NoSelector

\* variant: the error of sigstore.verify is swallowed
sigstoreVerifyUnchecked(bundle, selector) == TRUE

\* sigstore.verify(bundle, options)
sigstoreVerify(bundle, selector) == bundle.proofOk

\* the manifest values the subject check of an iteration reads
subjectRead(manifest) ==
  [purl |-> toPurl(manifest.name, manifest.version),
   digest |-> hexDigest(manifest.dist.integrity)]

\* the body of the for loop for the bundle at position i, up to its await:
\* a throw of the key checks or of the subject check, or the call of
\* sigstore.verify, whose answer the function then waits for
loopBody(i) ==
  LET bundles == attResponse.attestations
      rkeys == attestationRegistryKeys(attKeys, bundles)
      bundle == bundles[i]
      checked == keyCheck(attManifest, rkeys, bundle)
      selector == keySelector(rkeys, findKey(rkeys, bundle.keyid))
  IN IF checked # "ok"
       THEN /\ attResult' = Thrown(checked)
            /\ attPc' = "done"
            /\ UNCHANGED <<attI, attSubjectLog, attVerifyLog>>
     ELSE /\ attSubjectLog' = Append(attSubjectLog, subjectRead(attManifest))
          /\ IF ~subjectMatches(attManifest, bundle)
               THEN /\ attResult' = Thrown("EATTESTATIONSUBJECT")
                    /\ attPc' = "done"
                    /\ UNCHANGED <<attI, attVerifyLog>>
               ELSE /\ attVerifyLog' =
                         Append(attVerifyLog,
                                [bundle |-> i, keySelector |-> selector])
                    /\ attPc' = "verify"
                    /\ attI' = i
                    /\ UNCHANGED attResult

AttIdle ==
  /\ attManifest = AttManifest(NoTime, FALSE, FALSE)
  /\ attKeys = <<>>
  /\ attResponse = Response(FALSE, <<>>)
  /\ attNow = 0
  /\ attResult = NotCalled
  /\ attVerifyLog = <<>>
  /\ attPc = "idle"
  /\ attI = 0
  /\ attSubjectLog = <<>>

\* verifyAttestations(manifest, registryKeys) is called: it throws for a
\* manifest without attestations, or requests the attestations and waits
verifyAttestationsCall ==
  /\ attPc = "idle"
  /\ IF ~attManifest.dist.present \/ ~attManifest.dist.hasAttestations
       THEN /\ attResult' = Thrown("no attestations")
            /\ attPc' = "done"
       ELSE /\ attPc' = "fetch"
            /\ UNCHANGED attResult
  /\ UNCHANGED <<attManifest, attKeys, attResponse, attNow, attVerifyLog,
                 attI, attSubjectLog>>
  /\ UNCHANGED otherThanAtt

\* the attestations endpoint answers: a throw unless response.ok, or the
\* wait for response.json()
attestationsFetched ==
  /\ attPc = "fetch"
  /\ IF ~attResponse.ok
       THEN /\ attResult' = Thrown("fetch failed")
            /\ attPc' = "done"
       ELSE /\ attPc' = "json"
            /\ UNCHANGED attResult
  /\ UNCHANGED <<attManifest, attKeys, attResponse, attNow, attVerifyLog,
                 attI, attSubjectLog>>
  /\ UNCHANGED otherThanAtt

\* response.json() answers: the bundles are read, the registry keys are
\* filtered, and the loop runs up to its first await
attestationsDecoded ==
  /\ attPc = "json"
  /\ IF Len(attestationRegistryKeys(attKeys, attResponse.attestations)) = 0
       THEN /\ attResult' = Thrown("EMISSINGSIGNATUREKEY")
            /\ attPc' = "done"
            /\ UNCHANGED <<attI, attSubjectLog, attVerifyLog>>
       ELSE loopBody(1)
  /\ UNCHANGED <<attManifest, attKeys, attResponse, attNow>>
  /\ UNCHANGED otherThanAtt

\* sigstore.verify of the bundle at position attI settles: the catch block
\* throws, or the loop goes on to the next bundle, or the function returns
\* the manifest as it is then
sigstoreVerifySettles ==
  /\ attPc = "verify"
  /\ LET bundles == attResponse.attestations
         rkeys == attestationRegistryKeys(attKeys, bundles)
         selector == keySelector(rkeys, findKey(rkeys, bundles[attI].keyid))
     IN IF ~sigstoreVerify(bundles[attI], selector)
          THEN /\ attResult' = Thrown("EATTESTATIONVERIFY")
               /\ attPc' = "done"
               /\ UNCHANGED <<attI, attSubjectLog, attVerifyLog>>
        ELSE IF attI = Len(bundles)
          THEN /\ attResult' =
                    [status |-> "ok",
                     value |-> <<attManifest, attManifest.dist.attestations>>]
               /\ attPc' = "done"
               /\ UNCHANGED <<attI, attSubjectLog, attVerifyLog>>
        ELSE loopBody(attI + 1)
  /\ UNCHANGED <<attManifest, attKeys, attResponse, attNow>>
  /\ UNCHANGED otherThanAtt

\* while verifyAttestations waits another callback of the caller assigns
\* manifest.version and manifest.dist.integrity of the object it handed in
manifestAssigned(version, integrity) ==
  /\ attPc \in {"fetch", "json", "verify"}
  /\ attManifest' =
       [attManifest EXCEPT !.version = version, !.dist.integrity = integrity]
  /\ attManifest' # attManifest
  /\ UNCHANGED <<attKeys, attResponse, attNow, attResult, attVerifyLog,
                 attPc, attI, attSubjectLog>>
  /\ UNCHANGED otherThanAtt

\* ------------------------------------------------------------------------
\* NpmRegistry.getManifest
\* ------------------------------------------------------------------------

\* an absent property
Undefined == "undefined"

\* the keys of packument.versions
VersionKeys == {"3.0.0", "3.1.0", "4.0.0"}

\* spec.fetchSpec: a dist-tag, nothing, any version, a version, a range
FetchSpecs ==
  {"latest", "beta", "", "*", "3.0.0", "3.1.0", "9.9.9", "^3.0.0", "^4.0.0",
   "^9.0.0"}

\* packument['dist-tags']
DistTags ==
  [latest : {Undefined, "3.0.0", "3.1.0"}, beta : {Undefined, "4.0.0"}]

\* the packument: dist-tags, versions (when it has any), and the publish
\* time packument.time holds for its versions, NoTime when it holds none
Packument(tags, hasVersions, versions, time) ==
  [distTags |-> tags, hasVersions |-> hasVersions, versions |-> versions,
   time |-> time]

\* publish times: before and after MISSING_TIME_CUTOFF
PublishTimes == {0, MaxStamp}

PackumentResponses ==
  {[ok |-> TRUE, packument |-> Packument(tags, TRUE, vs, t)] :
     tags \in DistTags, vs \in SUBSET VersionKeys,
     t \in {NoTime} \cup PublishTimes}
  \cup {[ok |-> TRUE, packument |-> Packument(tags, FALSE, {}, NoTime)] :
          tags \in DistTags}
  \cup {[ok |-> FALSE,
         packument |-> Packument([latest |-> Undefined, beta |-> Undefined],
                                 FALSE, {}, NoTime)]}

\* packument.time && packument.time[version]: the _time of the manifest
timeOf(packument, version) == packument.time

\* the version picked for the fetch spec
pickVersion(fetchSpec, packument) ==
  IF fetchSpec = "latest" \/ fetchSpec = "" \/ fetchSpec = "*"
    THEN packument.distTags.latest
  ELSE fetchSpec

\* variant: any version of a packument with versions is found
versionFoundAny(packument, version) == packument.hasVersions

\* packument.versions && packument.versions[version]
versionFound(packument, version) ==
  packument.hasVersions /\ version \in packument.versions

\* getManifest(packageSpec), the endpoint answering response
getManifest(fetchSpec, response) ==
  LET packument == response.packument
      version == pickVersion(fetchSpec, packument)
  IN IF ~response.ok THEN Thrown("fetch failed")
     ELSE IF ~versionFound(packument, version) THEN Thrown("not found")
     ELSE [status |-> "ok",
           value |-> <<version, timeOf(packument, version)>>]

ManifestIdle ==
  /\ mfSpec = ""
  /\ mfResponse = [ok |-> FALSE,
                   packument |-> Packument([latest |-> Undefined,
                                            beta |-> Undefined],
                                           FALSE, {}, NoTime)]
  /\ mfResult = NotCalled
  /\ mfPc = "idle"

\* getManifest(packageSpec) is called: the packument is requested
getManifestCall ==
  /\ mfPc = "idle"
  /\ mfPc' = "fetch"
  /\ UNCHANGED <<mfSpec, mfResponse, mfResult>>
  /\ UNCHANGED otherThanManifest

\* the packument endpoint answers: a throw unless response.ok, or the wait
\* for response.json()
getManifestFetched ==
  /\ mfPc = "fetch"
  /\ IF ~mfResponse.ok
       THEN /\ mfResult' = getManifest(mfSpec, mfResponse)
            /\ mfPc' = "done"
       ELSE /\ mfPc' = "json"
            /\ UNCHANGED mfResult
  /\ UNCHANGED <<mfSpec, mfResponse>>
  /\ UNCHANGED otherThanManifest

\* response.json() answers: the version is picked and the call settles
getManifestDecoded ==
  /\ mfPc = "json"
  /\ mfResult' = getManifest(mfSpec, mfResponse)
  /\ mfPc' = "done"
  /\ UNCHANGED <<mfSpec, mfResponse>>
  /\ UNCHANGED otherThanManifest

\* ------------------------------------------------------------------------
\* The signatures check (signatures.marshall.js)
\* ------------------------------------------------------------------------

\* how the keys endpoint answers the fetch of validate: a failure, or one
\* of the key sets of the registry
KeysFetches ==
  {[ok |-> FALSE, keys |-> NoKeys]}
  \cup {[ok |-> TRUE, keys |-> ks] : ks \in KeySets}

\* response.keys.map(...) for each key set of the registry: k1 without an
\* expiry, k1 expiring at MISSING_TIME_CUTOFF, k2 alone
registryKeysOf(ks) ==
  CASE ks = "keysV1" -> <<RegistryKey("k1", NoTime)>>
    [] ks = "keysV2" -> <<RegistryKey("k1", MISSING_TIME_CUTOFF)>>
    [] ks = "keysV3" -> <<RegistryKey("k2", NoTime)>>

\* a version that was published without registry signatures
UnsignedVersion == "3.1.0"

\* packument.versions[version] with its _time: signed under k1, but for
\* the unsigned version
registryManifest(picked, tampered) ==
  [id |-> PackageId, time |-> picked[2],
   dist |-> [present |-> TRUE, integrity |-> "sha512-X",
             hasSignatures |-> picked[1] # UnsignedVersion,
             signatures |->
               <<[keyid |-> "k1",
                  sig |-> [by |-> IF tampered THEN "k2" ELSE "k1",
                           over |-> <<PackageId, "sha512-X">>]]>>],
   version |-> picked[1]]

\* validate has not settled
NotValidated == [kind |-> "none", message |-> <<>>]

\* new Warning(message)
WarningOf(message) == [kind |-> "warning", message |-> message]

\* variant: only the expired key is turned into a Warning
validateCatchRethrow(status) ==
  IF status = "EEXPIREDSIGNATUREKEY"
    THEN WarningOf(<<"Package is signed with an expired key">>)
  ELSE [kind |-> "error", message |-> <<status>>]

\* the catch of validate: every failure becomes a Warning
validateCatch(status) ==
  IF status = "EEXPIREDSIGNATUREKEY"
    THEN WarningOf(<<"Package is signed with an expired key">>)
  ELSE WarningOf(<<"Unable to verify package signature on registry", status>>)

\* the spec handed to getManifest: `${pkg.packageName}@${pkg.packageVersion}`
requestedSpec(packageVersion, packument) == packageVersion

\* validate(pkg): the keys, then the manifest, then its signatures
signaturesValidate(packageVersion, keysFetch, response, tampered) ==
  LET fetched == getManifest(requestedSpec(packageVersion, response.packument),
                             response)
      verified == verifySignatures(registryManifest(fetched.value, tampered),
                                   registryKeysOf(keysFetch.keys), 0)
  IN IF ~keysFetch.ok THEN validateCatch("Error fetching registry keys")
     ELSE IF fetched.status # "ok" THEN validateCatch(fetched.status)
     ELSE IF verified.status # "ok" THEN validateCatch(verified.status)
     ELSE [kind |-> "resolved", message |-> <<"verified", fetched.value[1]>>]

SigCheckIdle ==
  /\ svVersion = ""
  /\ svKeysFetch = [ok |-> FALSE, keys |-> NoKeys]
  /\ svPackument = [ok |-> FALSE,
                    packument |-> Packument([latest |-> Undefined,
                                             beta |-> Undefined],
                                            FALSE, {}, NoTime)]
  /\ svTampered = FALSE
  /\ svRequested = Undefined
  /\ svOutcome = NotValidated
  /\ svPc = "idle"
  /\ svCall = 0
  /\ svKeys = NoKeys

\* an earlier check of the run has fetched the key set ks
KeysFetchedBefore(ks) ==
  /\ registryKeysCache = ks
  /\ keysCall = [k \in Checks |->
                   IF k = 1 THEN [state |-> "done", keys |-> ks, fetched |-> TRUE]
                   ELSE NoKeysCall]
  /\ keysFetches = 1

\* the number of the next call of fetchRegistryKeys
nextKeysCall ==
  CHOOSE k \in Checks :
    /\ keysCall[k].state = "unissued"
    /\ \A b \in Checks : b < k => keysCall[b].state # "unissued"

\* validate(pkg) is called: fetchRegistryKeys answers from the cache, or
\* it requests the keys; validate waits for its promise
validateSignatures ==
  /\ svPc = "idle"
  /\ fetchRegistryKeysBody(nextKeysCall)
  /\ svCall' = nextKeysCall
  /\ IF registryKeysCache # NoKeys
       THEN /\ svKeys' = registryKeysCache
            /\ svPc' = "then"
       ELSE /\ svPc' = "keys"
            /\ UNCHANGED svKeys
  /\ UNCHANGED <<svVersion, svKeysFetch, svPackument, svTampered, svRequested,
                 svOutcome>>
  /\ UNCHANGED otherThanKeysAndSigCheck

\* the keys endpoint answers the fetch of validate: the keys are stored in
\* registryKeysCache, or the rejection reaches the catch of validate
validateKeysAnswered ==
  /\ svPc = "keys"
  /\ IF svKeysFetch.ok
       THEN /\ keysThen(svCall, svKeysFetch.keys)
            /\ svKeys' = svKeysFetch.keys
            /\ svPc' = "then"
            /\ UNCHANGED svOutcome
       ELSE /\ keysCatch(svCall)
            /\ svOutcome' = validateCatch("Error fetching registry keys")
            /\ svPc' = "done"
            /\ UNCHANGED svKeys
  /\ UNCHANGED <<svVersion, svKeysFetch, svPackument, svTampered, svRequested,
                 svCall>>
  /\ UNCHANGED otherThanKeysAndSigCheck

\* the .then of validate runs with the keys: getManifest is called and
\* requests the packument
validateKeysThen ==
  /\ svPc = "then"
  /\ svRequested' = requestedSpec(svVersion, svPackument.packument)
  /\ svPc' = "fetch"
  /\ UNCHANGED <<svVersion, svKeysFetch, svPackument, svTampered, svOutcome,
                 svCall, svKeys>>
  /\ UNCHANGED otherThanSigCheck

\* the packument endpoint answers getManifest: its throw reaches the catch
\* of validate, or getManifest waits for response.json()
validateManifestFetched ==
  /\ svPc = "fetch"
  /\ IF ~svPackument.ok
       THEN /\ svOutcome' =
                 signaturesValidate(svVersion, [ok |-> TRUE, keys |-> svKeys],
                                    svPackument, svTampered)
            /\ svPc' = "done"
       ELSE /\ svPc' = "json"
            /\ UNCHANGED svOutcome
  /\ UNCHANGED <<svVersion, svKeysFetch, svPackument, svTampered, svRequested,
                 svCall, svKeys>>
  /\ UNCHANGED otherThanSigCheck

\* response.json() answers getManifest: the manifest is picked, its
\* signatures are verified with the keys validate obtained, validate settles
validateManifestDecoded ==
  /\ svPc = "json"
  /\ svOutcome' =
       signaturesValidate(svVersion, [ok |-> TRUE, keys |-> svKeys],
                          svPackument, svTampered)
  /\ svPc' = "done"
  /\ UNCHANGED <<svVersion, svKeysFetch, svPackument, svTampered, svRequested,
                 svCall, svKeys>>
  /\ UNCHANGED otherThanSigCheck

\* ------------------------------------------------------------------------
\* PackageRepoUtils.getSemVer
\* ------------------------------------------------------------------------

\* the strings semver.valid accepts
ValidVersions == VersionKeys \cup {"9.9.9"}

\* the packageVersion of a call: tags, nothing, ranges, versions
VersionSpecs == FetchSpecs \cup {"next"}

\* the keys of packageInfo.versions, one of them not a version
InfoVersionKeys == VersionKeys \cup {"junk"}

\* packageInfo: dist-tags and versions, each of them possibly missing
PackageInfo(hasTags, tags, hasVersions, versions) ==
  [hasDistTags |-> hasTags, distTags |-> tags, hasVersions |-> hasVersions,
   versions |-> versions]

NoTags == [latest |-> Undefined, beta |-> Undefined]

PackageInfos ==
  {PackageInfo(TRUE, tags, TRUE, vs) :
     tags \in DistTags, vs \in SUBSET InfoVersionKeys}
  \cup {PackageInfo(TRUE, tags, FALSE, {}) : tags \in DistTags}
  \cup {PackageInfo(FALSE, NoTags, TRUE, vs) : vs \in SUBSET InfoVersionKeys}
  \cup {PackageInfo(FALSE, NoTags, FALSE, {})}

\* semver.valid(version)
semverValid(version) == version \in ValidVersions

\* major, minor, patch of a valid version
semverParse(version) ==
  CASE version = "3.0.0" -> <<3, 0, 0>>
    [] version = "3.1.0" -> <<3, 1, 0>>
    [] version = "4.0.0" -> <<4, 0, 0>>
    [] version = "9.9.9" -> <<9, 9, 9>>

\* the order of versions: major, then minor, then patch
partsGte(x, y) ==
  \/ x[1] > y[1]
  \/ x[1] = y[1] /\ x[2] > y[2]
  \/ x[1] = y[1] /\ x[2] = y[2] /\ x[3] >= y[3]

\* semver.gte(a, b)
semverGte(a, b) == partsGte(semverParse(a), semverParse(b))

\* the version a caret range starts at
caretBase(range) ==
  CASE range = "^3.0.0" -> <<3, 0, 0>>
    [] range = "^4.0.0" -> <<4, 0, 0>>
    [] range = "^9.0.0" -> <<9, 0, 0>>

\* semver.validRange(range)
semverValidRange(range) ==
  \/ semverValid(range)
  \/ range \in {"", "*", "^3.0.0", "^4.0.0", "^9.0.0"}

\* semver.satisfies(version, range), for a valid range
semverSatisfies(version, range) ==
  IF range \in {"", "*"} THEN TRUE
  ELSE IF semverValid(range) THEN version = range
  ELSE /\ semverParse(version)[1] = caretBase(range)[1]
       /\ partsGte(semverParse(version), caretBase(range))

\* variant: the lowest satisfying version
semverMinSatisfying(versions, range) ==
  LET sat == {v \in versions : semverValidRange(range) /\ semverSatisfies(v, range)}
  IN IF sat = {} THEN Undefined
     ELSE CHOOSE v \in sat : \A w \in sat : semverGte(w, v)

\* semver.maxSatisfying(versions, range): null when nothing satisfies
semverMaxSatisfying(versions, range) ==
  LET sat == {v \in versions : semverValidRange(range) /\ semverSatisfies(v, range)}
  IN IF sat = {} THEN Undefined
     ELSE CHOOSE v \in sat : \A w \in sat : semverGte(v, w)

\* packageInfo['dist-tags'][packageVersion]
distTagOf(tags, packageVersion) ==
  IF packageVersion = "latest" THEN tags.latest
  ELSE IF packageVersion = "beta" THEN tags.beta
  ELSE Undefined

Resolved(version) == [status |-> "ok", value |-> <<version>>]

\* getSemVer(packageName, packageVersion), getPackageInfo resolving with
\* packageInfo
getSemVer(packageVersion, packageInfo) ==
  LET availableVersions == {v \in packageInfo.versions : semverValid(v)}
      satisfyingVersion == semverMaxSatisfying(availableVersions, packageVersion)
  IN IF semverValid(packageVersion) THEN Resolved(packageVersion)
     ELSE IF ~packageInfo.hasDistTags THEN Thrown("Could not find dist-tags")
     ELSE IF distTagOf(packageInfo.distTags, packageVersion) # Undefined
       THEN Resolved(distTagOf(packageInfo.distTags, packageVersion))
     ELSE IF packageInfo.hasVersions /\ satisfyingVersion # Undefined
       THEN Resolved(satisfyingVersion)
     ELSE Thrown("Could not find dist-tag")

SemVerIdle ==
  /\ gsVersion = ""
  /\ gsInfo = PackageInfo(FALSE, NoTags, FALSE, {})
  /\ gsResult = NotCalled
  /\ gsPc = "idle"
  /\ gsCall = 0

\* the packageName of the calls
CheckedPackage == "pkgA"

\* the object the registry answers with for the package
RegistryDoc == "doc1"

\* getSemVer(packageName, packageVersion) is called: a valid version is
\* returned as it is; otherwise getPackageInfo is called and getSemVer
\* waits for it
getSemVerCall ==
  /\ gsPc = "idle"
  /\ IF semverValid(gsVersion)
       THEN /\ gsResult' = getSemVer(gsVersion, gsInfo)
            /\ gsPc' = "done"
            /\ UNCHANGED <<gsCall, repoVars>>
       ELSE /\ getPackageInfoBody(nextCall, CheckedPackage)
            /\ gsCall' = nextCall
            /\ gsPc' = IF cacheHit(pkgInfoCache, CheckedPackage)
                         THEN "resume" ELSE "fetch"
            /\ UNCHANGED gsResult
  /\ UNCHANGED <<gsVersion, gsInfo>>
  /\ UNCHANGED otherThanRepoAndSemVer

\* the fetch of getPackageInfo answers and is decoded: the package info is
\* stored in pkgInfoCache
getSemVerInfoFetched ==
  /\ gsPc = "fetch"
  /\ fetchThen(gsCall, RegistryDoc)
  /\ gsPc' = "resume"
  /\ UNCHANGED <<gsVersion, gsInfo, gsResult, gsCall>>
  /\ UNCHANGED otherThanRepoAndSemVer

\* getSemVer goes on after its await with the package info, and settles
getSemVerResumes ==
  /\ gsPc = "resume"
  /\ gsResult' = getSemVer(gsVersion, gsInfo)
  /\ gsPc' = "done"
  /\ UNCHANGED <<gsVersion, gsInfo, gsCall>>
  /\ UNCHANGED otherThanSemVer

\* ------------------------------------------------------------------------
\* BaseMarshall.isEnabled
\* ------------------------------------------------------------------------

MarshallNames == {"signatures", "provenance"}

\* name.toUpperCase()
toUpperCase(name) ==
  CASE name = "signatures" -> "SIGNATURES"
    [] name = "provenance" -> "PROVENANCE"

\* `MARSHALL_DISABLE_${this.name.toUpperCase()}`
envKey(name) == <<"MARSHALL_DISABLE_", toUpperCase(name)>>

\* the variables of the environment: those of the checks, and one in lower case
EnvKeys ==
  {envKey(n) : n \in MarshallNames} \cup {<<"MARSHALL_DISABLE_", "signatures">>}

\* the value of a variable: not set, empty, or a text
EnvValues == {Undefined, "", "true", "0"}

\* a string that is truthy
truthy(value) == value # Undefined /\ value # ""

\* variant: a variable that is set disables the check, empty or not
isEnabledUnlessSet(name, env) == env[envKey(name)] = Undefined

\* isEnabled(): !(process.env[...] || false)
isEnabled(name, env) == ~truthy(env[envKey(name)])

EnableIdle ==
  /\ enName = "signatures"
  /\ enEnv = [k \in EnvKeys |-> Undefined]
  /\ enStage = "constructed"
  /\ enEntry = FALSE
  /\ enValidated = 0

\* the runner asks the check whether it is enabled: an enabled check gets
\* its result record (init) and a task, a disabled one neither
collectTask ==
  /\ enStage = "constructed"
  /\ IF isEnabled(enName, enEnv)
       THEN enStage' = "listed" /\ enEntry' = TRUE
       ELSE enStage' = "skipped" /\ enEntry' = FALSE
  /\ UNCHANGED <<enName, enEnv, enValidated>>
  /\ UNCHANGED otherThanEnable

\* the task of a listed check runs: run(ctx) invokes validate for the package
runTask ==
  /\ enStage = "listed"
  /\ enStage' = "ran"
  /\ enValidated' = enValidated + 1
  /\ UNCHANGED <<enName, enEnv, enEntry>>
  /\ UNCHANGED otherThanEnable

\* ------------------------------------------------------------------------
\* The deprecation check (deprecation.marshall.js)
\* ------------------------------------------------------------------------

\* pkg.packageVersion of the calls
DeprecationSpecs == {"latest", "", "3.0.0", "^3.0.0", "9.9.9", "next"}

DeprecationVersionKeys == {"3.0.0", "3.1.0"}

\* data.repository?.url: none, one outside GitHub, one on GitHub
Repositories == {"none", "gitlab", "github"}

\* the answer of api.github.com/repos/<owner>/<repo>
GitHubAnswers ==
  {"archived", "active", "notFound", "rateLimited", "forbidden", "serverError"}

\* the package data: dist-tags.latest, versions, the deprecated ones among
\* them, and the repository
PackageData(present, latest, hasVersions, versions, deprecated, repository) ==
  [present |-> present, latest |-> latest, hasVersions |-> hasVersions,
   versions |-> versions, deprecated |-> deprecated,
   repository |-> repository]

NoPackageData == PackageData(FALSE, Undefined, FALSE, {}, {}, "none")

PackageDatas ==
  {PackageData(TRUE, l, TRUE, vs, ds, r) :
     l \in {Undefined, "3.1.0"}, vs \in SUBSET DeprecationVersionKeys,
     ds \in SUBSET DeprecationVersionKeys, r \in Repositories}
  \cup {PackageData(TRUE, l, FALSE, {}, {}, r) :
          l \in {Undefined, "3.1.0"}, r \in Repositories}
  \cup {NoPackageData}

\* semver.coerce(versionSpec).version, undefined when coerce returns null
semverCoerce(versionSpec) ==
  CASE versionSpec = "3.0.0" -> "3.0.0"
    [] versionSpec = "^3.0.0" -> "3.0.0"
    [] versionSpec = "9.9.9" -> "9.9.9"
    [] OTHER -> Undefined

\* resolvePackageVersion(packageName, versionSpec, packageData): fetched is
\* what getPackageInfo resolves with when no package data is handed in
resolvePackageVersion(versionSpec, packageData, fetched) ==
  LET info == IF packageData.present THEN packageData ELSE fetched
      resolved == semverMaxSatisfying(info.versions, versionSpec)
  IN IF versionSpec = "" THEN Undefined
     ELSE IF ~info.present THEN Undefined
     ELSE IF versionSpec = "latest" /\ info.latest # Undefined
       THEN info.latest
     ELSE IF info.hasVersions /\ resolved # Undefined THEN resolved
     ELSE semverCoerce(versionSpec)

\* validate returned
Pass == [kind |-> "pass", message |-> <<>>]

\* throw new Error(message)
ErrorOf(message) == [kind |-> "error", message |-> message]

\* the answers of the GitHub API that carry a body: response.json() is awaited
gitHubHasBody(answer) == answer \in {"archived", "active"}

\* isGitHubRepoArchived(owner, repo), the API answering answer: whether the
\* repository is archived, or the message of the Error thrown
isGitHubRepoArchived(answer) ==
  IF answer = "rateLimited" THEN Thrown("GitHub API rate limit exceeded")
  ELSE IF answer = "forbidden" THEN Thrown("GitHub API access forbidden")
  ELSE IF answer = "notFound" THEN Resolved(FALSE)
  ELSE IF answer = "serverError" THEN Thrown("GitHub API error")
  ELSE Resolved(answer = "archived")

\* the repository url is one of GitHub: extractGitHubRepoFromUrl(repoUrl)
onGitHub(packageData) == packageData.repository = "github"

\* checkGitHubRepoArchived(data)
checkGitHubRepoArchived(packageData, answer) ==
  LET isArchived == isGitHubRepoArchived(answer)
  IN IF ~onGitHub(packageData) THEN Pass
     ELSE IF isArchived.status # "ok" THEN ErrorOf(<<isArchived.status>>)
     ELSE IF isArchived.value[1]
       THEN ErrorOf(<<"Package repository has been archived on GitHub">>)
     ELSE Pass

\* packageVersion is resolved and data.versions[packageVersion].deprecated
packageDeprecated(packageData, packageVersion) ==
  /\ packageData.hasVersions
  /\ packageVersion \in packageData.versions
  /\ packageVersion \in packageData.deprecated

\* validate(pkg) of the deprecation check
deprecationValidate(versionSpec, packageData, answer) ==
  LET packageVersion ==
        resolvePackageVersion(versionSpec, packageData, packageData)
  IN IF ~packageData.present THEN Pass
     ELSE IF packageVersion = Undefined THEN Pass
     ELSE IF packageDeprecated(packageData, packageVersion)
       THEN ErrorOf(<<"Package deprecated", packageVersion>>)
     ELSE checkGitHubRepoArchived(packageData, answer)

DeprecationIdle ==
  /\ dpVersion = ""
  /\ dpData = NoPackageData
  /\ dpGitHub = "notFound"
  /\ dpResolved = Undefined
  /\ dpOutcome = NotValidated
  /\ dpPc = "idle"
  /\ dpCall = 0

\* what response.json() of the registry gives for the package data: an
\* object, or null
decoded(packageData) == IF packageData.present THEN RegistryDoc ELSE NullData

\* validate(pkg) is called: getPackageInfo is called and validate waits
validateDeprecation ==
  /\ dpPc = "idle"
  /\ getPackageInfoBody(nextCall, CheckedPackage)
  /\ dpCall' = nextCall
  /\ dpPc' = IF cacheHit(pkgInfoCache, CheckedPackage)
               THEN "resume" ELSE "fetch"
  /\ UNCHANGED <<dpVersion, dpData, dpGitHub, dpResolved, dpOutcome>>
  /\ UNCHANGED otherThanRepoAndDeprecation

\* the fetch of getPackageInfo answers and is decoded: the package data is
\* stored in pkgInfoCache
validateDeprecationFetched ==
  /\ dpPc = "fetch"
  /\ fetchThen(dpCall, decoded(dpData))
  /\ dpPc' = "resume"
  /\ UNCHANGED <<dpVersion, dpData, dpGitHub, dpResolved, dpOutcome, dpCall>>
  /\ UNCHANGED otherThanRepoAndDeprecation

\* validate goes on with the package data: it returns for no data, or
\* calls resolvePackageVersion with the data and waits for its promise
validateDeprecationResumes ==
  /\ dpPc = "resume"
  /\ IF ~dpData.present
       THEN /\ dpOutcome' = deprecationValidate(dpVersion, dpData, dpGitHub)
            /\ dpPc' = "done"
            /\ UNCHANGED dpResolved
       ELSE /\ dpResolved' = resolvePackageVersion(dpVersion, dpData, dpData)
            /\ dpPc' = "resolved"
            /\ UNCHANGED dpOutcome
  /\ UNCHANGED <<dpVersion, dpData, dpGitHub, dpCall>>
  /\ UNCHANGED otherThanDeprecation

\* validate goes on with the resolved version: it returns or throws, or
\* checkGitHubRepoArchived asks the GitHub API and validate waits
validateDeprecationResolved ==
  /\ dpPc = "resolved"
  /\ IF /\ dpResolved # Undefined
        /\ ~packageDeprecated(dpData, dpResolved)
        /\ onGitHub(dpData)
       THEN /\ dpPc' = "github"
            /\ UNCHANGED dpOutcome
       ELSE /\ dpOutcome' = deprecationValidate(dpVersion, dpData, dpGitHub)
            /\ dpPc' = "done"
  /\ UNCHANGED <<dpVersion, dpData, dpGitHub, dpResolved, dpCall>>
  /\ UNCHANGED otherThanDeprecation

\* the GitHub API answers: isGitHubRepoArchived throws or returns false on
\* the status, or waits for response.json()
validateDeprecationGitHubAnswered ==
  /\ dpPc = "github"
  /\ IF gitHubHasBody(dpGitHub)
       THEN /\ dpPc' = "githubJson"
            /\ UNCHANGED dpOutcome
       ELSE /\ dpOutcome' = deprecationValidate(dpVersion, dpData, dpGitHub)
            /\ dpPc' = "done"
  /\ UNCHANGED <<dpVersion, dpData, dpGitHub, dpResolved, dpCall>>
  /\ UNCHANGED otherThanDeprecation

\* response.json() of the GitHub API answers: validate settles
validateDeprecationGitHubDecoded ==
  /\ dpPc = "githubJson"
  /\ dpOutcome' = deprecationValidate(dpVersion, dpData, dpGitHub)
  /\ dpPc' = "done"
  /\ UNCHANGED <<dpVersion, dpData, dpGitHub, dpResolved, dpCall>>
  /\ UNCHANGED otherThanDeprecation

\* ------------------------------------------------------------------------
\* levenshteinDistance (levenshteinDistance.js)
\* ------------------------------------------------------------------------

Letters == {"a", "b"}

\* the strings of at most MaxStr letters
Strings == UNION {[1..n -> Letters] : n \in 0..MaxStr}

\* the second string may hold a letter the first never has
CorpusLetters == Letters \cup {"c"}

CorpusStrings == UNION {[1..n -> CorpusLetters] : n \in 0..MaxStr}

\* maxDistance === undefined
NoMax == -1

\* no value returned yet
NoResult == -2

\* variant: the substitution is not a candidate
min3NoSubstitution(x, y, z) == IF x <= y THEN x ELSE y

\* Math.min(x, y, z)
min3(x, y, z) ==
  IF x <= y /\ x <= z THEN x ELSE IF y <= z THEN y ELSE z

\* variant: a letter 'a' of the first string matches every letter
substitutionCostLenient(x, y) == IF x = y \/ x = "a" THEN 0 ELSE 1

\* a[i - 1] === b[j - 1] ? 0 : 1
substitutionCost(x, y) == IF x = y THEN 0 ELSE 1

\* prevRow at the start: prevRow[i] = i; position i of the array is the
\* element i + 1 of the sequence
firstRow(aLen) == [i \in 1..(aLen + 1) |-> i - 1]

\* the inner loop: currRow for the row j, filled from position i on
RECURSIVE fillRow(_, _, _, _, _, _)
fillRow(a, b, j, prevRow, i, currRow) ==
  IF i > Len(a) THEN currRow
  ELSE fillRow(a, b, j, prevRow, i + 1,
               Append(currRow,
                      min3(prevRow[i + 1] + 1,
                           currRow[i] + 1,
                           prevRow[i] + substitutionCost(a[i], b[j]))))

\* variant: the greatest value of the row
rowMax(row) == CHOOSE m \in {row[i] : i \in DOMAIN row} : \A i \in DOMAIN row : row[i] <= m

\* rowMin after the inner loop: the least value of the row
rowMin(row) == CHOOSE m \in {row[i] : i \in DOMAIN row} : \A i \in DOMAIN row : m <= row[i]

\* the outer loop from row j on: the value returned
RECURSIVE rowLoop(_, _, _, _, _)
rowLoop(a, b, j, prevRow, maxDistance) ==
  IF j > Len(b) THEN prevRow[Len(a) + 1]
  ELSE LET currRow == fillRow(a, b, j, prevRow, 1, <<j>>)
       IN IF maxDistance # NoMax /\ rowMin(currRow) >= maxDistance
            THEN rowMin(currRow)
          ELSE rowLoop(a, b, j + 1, currRow, maxDistance)

\* variant: the strings are not put in order of length
levenshteinDistanceNoSwap(a, b, maxDistance) ==
  IF a = b THEN 0
  ELSE IF Len(a) = 0 THEN Len(b)
  ELSE IF Len(b) = 0 THEN Len(a)
  ELSE IF maxDistance # NoMax /\ Len(b) - Len(a) >= maxDistance
    THEN Len(b) - Len(a)
  ELSE rowLoop(a, b, 1, firstRow(Len(a)), maxDistance)

\* levenshteinDistance(a, b, maxDistance)
levenshteinDistance(a, b, maxDistance) ==
  LET short == IF Len(a) > Len(b) THEN b ELSE a
      long == IF Len(a) > Len(b) THEN a ELSE b
  IN IF a = b THEN 0
     ELSE IF Len(a) = 0 THEN Len(b)
     ELSE IF Len(b) = 0 THEN Len(a)
     ELSE IF maxDistance # NoMax /\ Len(long) - Len(short) >= maxDistance
       THEN Len(long) - Len(short)
     ELSE rowLoop(short, long, 1, firstRow(Len(short)), maxDistance)

LevenshteinIdle ==
  /\ lvA = <<>>
  /\ lvB = <<>>
  /\ lvMax = NoMax
  /\ lvResult = NoResult
  /\ lvSwapped = NoResult

\* levenshteinDistance(a, b, maxDistance) returns
distanceCall ==
  /\ lvResult = NoResult
  /\ lvResult' = levenshteinDistance(lvA, lvB, lvMax)
  /\ UNCHANGED <<lvA, lvB, lvMax, lvSwapped>>
  /\ UNCHANGED otherThanLevenshtein

\* levenshteinDistance(b, a, maxDistance) returns
swappedCall ==
  /\ lvSwapped = NoResult
  /\ lvSwapped' = levenshteinDistance(lvB, lvA, lvMax)
  /\ UNCHANGED <<lvA, lvB, lvMax, lvResult>>
  /\ UNCHANGED otherThanLevenshtein

\* ------------------------------------------------------------------------
\* The age check (age.marshall.js)
\* ------------------------------------------------------------------------

PACKAGE_AGE_THRESHOLD == 22

PACKAGE_AGE_UNMAINTAINED_RISK == 365

\* 24 * 60 * 60 * 1000
MsPerDay == 24 * 60 * 60 * 1000

\* a number of milliseconds, kept as whole days and milliseconds of the day
\* (0 <= ms < MsPerDay); valid is FALSE for NaN
Ms(days, ms) == [valid |-> TRUE, d |-> days, ms |-> ms]

NaN == [valid |-> FALSE, d |-> 0, ms |-> 0]

\* days * 24 * 60 * 60 * 1000
daysInMs(days) == Ms(days, 0)

\* x - y
msMinus(x, y) ==
  IF ~x.valid \/ ~y.valid THEN NaN
  ELSE IF x.ms >= y.ms THEN Ms(x.d - y.d, x.ms - y.ms)
  ELSE Ms(x.d - y.d - 1, x.ms - y.ms + MsPerDay)

\* variant: x <= y
msLessOrEqual(x, y) ==
  /\ x.valid /\ y.valid
  /\ x.d < y.d \/ (x.d = y.d /\ x.ms <= y.ms)

\* x < y, false when one of them is NaN
msLess(x, y) ==
  /\ x.valid /\ y.valid
  /\ x.d < y.d \/ (x.d = y.d /\ x.ms < y.ms)

\* x >= y, false when one of them is NaN
msAtLeast(x, y) ==
  /\ x.valid /\ y.valid
  /\ x.d > y.d \/ (x.d = y.d /\ x.ms >= y.ms)

\* Math.round(x / (1000 * 60 * 60 * 24)), for a valid x
roundDays(x) == IF 2 * x.ms >= MsPerDay THEN x.d + 1 ELSE x.d

\* the moments of the calls
Nows == {Ms(20000, 0), Ms(20000, 500)}

\* a date string of the registry: missing, malformed, or a moment given by
\* its distance to now
MissingDate == [valid |-> FALSE, d |-> -1, ms |-> 0]

\* Date.parse(dateString)
dateParse(date) == IF date.valid THEN date ELSE NaN

\* the moment days and ms before now (after now when negative)
Ago(nowMs, days, ms) == msMinus(nowMs, Ms(days, ms))

CreatedDates(nowMs) ==
  {MissingDate, NaN,
   Ago(nowMs, PACKAGE_AGE_THRESHOLD, 1), Ago(nowMs, PACKAGE_AGE_THRESHOLD, 0),
   Ago(nowMs, PACKAGE_AGE_THRESHOLD - 1, MsPerDay - 1), Ago(nowMs, 0, 0),
   Ago(nowMs, -1, MsPerDay - 1), Ago(nowMs, -1, 0),
   Ago(nowMs, 2 * PACKAGE_AGE_UNMAINTAINED_RISK, 0)}

ReleaseDates(nowMs) ==
  {MissingDate, Ago(nowMs, PACKAGE_AGE_THRESHOLD, 0),
   Ago(nowMs, PACKAGE_AGE_UNMAINTAINED_RISK - 1, MsPerDay - 1),
   Ago(nowMs, PACKAGE_AGE_UNMAINTAINED_RISK, 0),
   Ago(nowMs, 2 * PACKAGE_AGE_UNMAINTAINED_RISK, 0)}

\* the package data of the age check: data.time.created and the release
\* date of version 3.0.0
AgeData(present, hasTime, created, released) ==
  [present |-> present, latest |-> "3.0.0", hasVersions |-> TRUE,
   versions |-> {"3.0.0"}, hasTime |-> hasTime, created |-> created,
   released |-> released]

AgeDatas(nowMs) ==
  {AgeData(TRUE, TRUE, c, r) :
     c \in CreatedDates(nowMs), r \in ReleaseDates(nowMs)}
  \cup {AgeData(TRUE, FALSE, MissingDate, MissingDate),
        AgeData(FALSE, FALSE, MissingDate, MissingDate)}

AgeSpecs == {"latest", "3.0.0", "9.9.9", ""}

\* data.time[packageVersion]
releaseDateOf(packageInfo, packageVersion) ==
  IF packageVersion = "3.0.0" THEN packageInfo.released ELSE MissingDate

\* the text of the old-package warning: days, or years from 365 days on
timeAgo(days) ==
  IF days >= 365 THEN <<days \div 365, "years">> ELSE <<days, "days">>

\* !data || !data.time || !data.time.created
noCreationTime(packageInfo) ==
  ~packageInfo.present \/ ~packageInfo.hasTime
    \/ packageInfo.created = MissingDate

\* dateDiff < thresholdMs, Date.now() giving nowMs
newlyPublished(packageInfo, nowMs) ==
  msLess(msMinus(nowMs, dateParse(packageInfo.created)),
         daysInMs(PACKAGE_AGE_THRESHOLD))

\* validate(pkg) of the age check: nowMs is what Date.now() gives for the
\* creation date, laterMs what it gives for the release date
ageValidate(versionSpec, packageInfo, nowMs, laterMs) ==
  LET packageVersion ==
        resolvePackageVersion(versionSpec, packageInfo, packageInfo)
      released == releaseDateOf(packageInfo, packageVersion)
      versionDateDiff == msMinus(laterMs, dateParse(released))
      unmaintainedThresholdMs == daysInMs(PACKAGE_AGE_UNMAINTAINED_RISK)
  IN IF noCreationTime(packageInfo)
       THEN WarningOf(<<"Could not determine package age">>)
     ELSE IF newlyPublished(packageInfo, nowMs)
       THEN ErrorOf(<<"Detected a newly published package">>)
     ELSE IF packageVersion = Undefined \/ released = MissingDate
       THEN WarningOf(<<"Could not determine package version release date">>)
     ELSE IF msAtLeast(versionDateDiff, unmaintainedThresholdMs)
       THEN WarningOf(<<"Detected an old package">>
                        \o timeAgo(roundDays(versionDateDiff)))
     ELSE Pass

AgeIdle ==
  /\ agVersion = ""
  /\ agData = AgeData(FALSE, FALSE, MissingDate, MissingDate)
  /\ agNow = Ms(0, 0)
  /\ agOutcome = NotValidated
  /\ agPc = "idle"
  /\ agCall = 0
  /\ agRead = NaN
  /\ agTicks = 0

\* the moment one millisecond after t
msAfter(t) ==
  IF t.ms + 1 = MsPerDay THEN Ms(t.d + 1, 0) ELSE Ms(t.d, t.ms + 1)

\* validate(pkg) is called: getPackageInfo is called and validate waits
validateAge ==
  /\ agPc = "idle"
  /\ getPackageInfoBody(nextCall, CheckedPackage)
  /\ agCall' = nextCall
  /\ agPc' = IF cacheHit(pkgInfoCache, CheckedPackage)
               THEN "resume" ELSE "fetch"
  /\ UNCHANGED <<agVersion, agData, agNow, agOutcome, agRead, agTicks>>
  /\ UNCHANGED otherThanRepoAndAge

\* the fetch of getPackageInfo answers and is decoded: the package data is
\* stored in pkgInfoCache
validateAgeFetched ==
  /\ agPc = "fetch"
  /\ fetchThen(agCall, decoded(agData))
  /\ agPc' = "resume"
  /\ UNCHANGED <<agVersion, agData, agNow, agOutcome, agCall, agRead, agTicks>>
  /\ UNCHANGED otherThanRepoAndAge

\* validate goes on with the package data: it throws for a missing
\* creation time; otherwise it reads the clock, and throws for a new
\* package or calls resolvePackageVersion and waits for its promise
validateAgeResumes ==
  /\ agPc = "resume"
  /\ agRead' = IF noCreationTime(agData) THEN agRead ELSE agNow
  /\ IF noCreationTime(agData) \/ newlyPublished(agData, agNow)
       THEN /\ agOutcome' = ageValidate(agVersion, agData, agNow, agNow)
            /\ agPc' = "done"
       ELSE /\ agPc' = "resolved"
            /\ UNCHANGED agOutcome
  /\ UNCHANGED <<agVersion, agData, agNow, agCall, agTicks>>
  /\ UNCHANGED otherThanAge

\* validate goes on with the resolved version: it reads the clock again
\* for the release date, and settles
validateAgeResolved ==
  /\ agPc = "resolved"
  /\ agOutcome' = ageValidate(agVersion, agData, agRead, agNow)
  /\ agPc' = "done"
  /\ UNCHANGED <<agVersion, agData, agNow, agCall, agRead, agTicks>>
  /\ UNCHANGED otherThanAge

\* a millisecond passes while validate waits
clockAdvances ==
  /\ agPc \in {"fetch", "resume", "resolved"}
  /\ agTicks < MaxTicks
  /\ agNow' = msAfter(agNow)
  /\ agTicks' = agTicks + 1
  /\ UNCHANGED <<agVersion, agData, agOutcome, agPc, agCall, agRead>>
  /\ UNCHANGED otherThanAge

\* ------------------------------------------------------------------------
\* The countdown prompt (cliPrompt.js, autoContinue)
\* ------------------------------------------------------------------------

\* Ctrl+C (ASCII 3)
CtrlC == 3

\* 'y' and 'Y' (ASCII 121 and 89)
LowerY == 121

UpperY == 89

\* another key: 'n'
OtherKey == 110

\* what one 'data' event of stdin carries: one byte, or two read together
Chunks ==
  {<<CtrlC>>, <<LowerY>>, <<UpperY>>, <<OtherKey>>,
   <<LowerY, CtrlC>>, <<CtrlC, CtrlC>>}

Pending == [status |-> "pending", code |-> "", exitCode |-> 0]

\* { [name]: true }
NameTrue == [status |-> "resolved", code |-> "", exitCode |-> 0]

\* Error('Operation aborted by user') with code and exitCode
UserAbort == [status |-> "rejected", code |-> "USER_ABORT", exitCode |-> 1]

\* chunk && chunk.length === 1 && chunk[0] === 3
isCtrlC(chunk) == Len(chunk) = 1 /\ chunk[1] = CtrlC

\* chunk && chunk.length === 1 && (chunk[0] === 121 || chunk[0] === 89)
isProceed(chunk) == Len(chunk) = 1 /\ (chunk[1] = LowerY \/ chunk[1] = UpperY)

\* onKeypress: the flags <<aborted, userProceeded>> after the chunk
onKeypressFlags(chunk, aborted, userProceeded) ==
  IF isCtrlC(chunk) THEN <<TRUE, userProceeded>>
  ELSE IF isProceed(chunk) THEN <<aborted, TRUE>>
  ELSE <<aborted, userProceeded>>

\* the end of the TTY branch: throw when aborted, else return
settleTTY(aborted) == IF aborted THEN UserAbort ELSE NameTrue

AutoContinueIdle ==
  /\ acTTY = FALSE
  /\ acTime = 0
  /\ acI = 0
  /\ acPc = "done"
  /\ acAborted = FALSE
  /\ acUserProceeded = FALSE
  /\ acListening = FALSE
  /\ acChunks = <<>>
  /\ acResult = Pending

\* autoContinue up to its first await: the flags are clear, the listener is
\* on in a TTY, i = timeInSeconds - 1 and the loop is entered when i > 0
AutoContinueCalled(isTTY, timeInSeconds) ==
  /\ acTTY = isTTY
  /\ acTime = timeInSeconds
  /\ acI = timeInSeconds - 1
  /\ acPc = IF timeInSeconds - 1 > 0 THEN "sleep" ELSE "final"
  /\ acAborted = FALSE
  /\ acUserProceeded = FALSE
  /\ acListening = isTTY
  /\ acChunks = <<>>
  /\ acResult = Pending

\* stdin emits 'data' while the listener is on
keypress(chunk) ==
  /\ acListening
  /\ Len(acChunks) < MaxKeys
  /\ LET flags == onKeypressFlags(chunk, acAborted, acUserProceeded)
     IN /\ acAborted' = flags[1]
        /\ acUserProceeded' = flags[2]
  /\ acChunks' = Append(acChunks, chunk)
  /\ UNCHANGED <<acTTY, acTime, acI, acPc, acListening, acResult>>
  /\ UNCHANGED otherThanAutoContinue

\* the await setTimeout(1000) of the loop ends; the call runs to its next
\* await or to its end
loopTimerFires ==
  /\ acPc = "sleep"
  /\ IF acTTY /\ (acAborted \/ acUserProceeded)
       THEN \* break; the final wait is skipped; cleanup; throw or return
            /\ acPc' = "done"
            /\ acListening' = FALSE
            /\ acResult' = settleTTY(acAborted)
            /\ UNCHANGED acI
       ELSE \* the number is rewritten, i-- and the loop test
            /\ acI' = acI - 1
            /\ acPc' = IF acI - 1 > 0 THEN "sleep" ELSE "final"
            /\ UNCHANGED <<acListening, acResult>>
  /\ UNCHANGED <<acTTY, acTime, acAborted, acUserProceeded, acChunks>>
  /\ UNCHANGED otherThanAutoContinue

\* the await setTimeout(1000) of the final second ends
finalTimerFires ==
  /\ acPc = "final"
  /\ acPc' = "done"
  /\ acListening' = FALSE
  /\ acResult' = IF acTTY THEN settleTTY(acAborted) ELSE NameTrue
  /\ UNCHANGED <<acTTY, acTime, acI, acAborted, acUserProceeded, acChunks>>
  /\ UNCHANGED otherThanAutoContinue

\* ------------------------------------------------------------------------
\* PromiseThrottler.instance and promiseThrottleHelper
\* ------------------------------------------------------------------------

\* an argument left out of the call
Omitted == -1

NoArgs == <<Omitted - 1, Omitted - 1>>

\* the limits a caller may pass
ConcurrentArgs == {Omitted} \cup 1..MaxConcurrentChoice

DelayArgs == {Omitted} \cup 0..MaxDelayChoice

\* variant: the argument is passed over
argIgnored(arg, default) == default

\* a parameter with a default value
argOrDefault(arg, default) == IF arg = Omitted THEN default ELSE arg

\* if (!PromiseThrottler.instance): no object was initialised yet
needsNew(objects) == objects = 0

HelperIdle ==
  /\ thObjects = 0
  /\ thRefs = <<>>
  /\ thLastArgs = NoArgs

\* the object the constructor and getInstance give back: the one instance,
\* initialised on first use
theInstance ==
  IF needsNew(thObjects)
    THEN /\ thObjects' = thObjects + 1
         /\ maxConcurrent' = DefaultMaxConcurrent
         /\ minDelay' = DefaultMinDelay
         /\ runningCount' = 0
         /\ queue' = <<>>
    ELSE UNCHANGED <<thObjects, maxConcurrent, minDelay, runningCount, queue>>

\* new PromiseThrottler()
construct ==
  /\ Len(thRefs) < MaxOps
  /\ theInstance
  /\ thRefs' = Append(thRefs, thObjects')
  /\ UNCHANGED <<now, opState, startTime, doneTime, wakeAt, settleTime,
                 opResult, promiseResult, dispatched, enqueued, heldBy,
                 thLastArgs>>
  /\ UNCHANGED otherThanThrottleAndHelper

\* PromiseThrottler.getInstance()
getInstance ==
  /\ Len(thRefs) < MaxOps
  /\ theInstance
  /\ thRefs' = Append(thRefs, thObjects')
  /\ UNCHANGED <<now, opState, startTime, doneTime, wakeAt, settleTime,
                 opResult, promiseResult, dispatched, enqueued, heldBy,
                 thLastArgs>>
  /\ UNCHANGED otherThanThrottleAndHelper

\* promiseThrottleHelper(op, maxConcurrent, minDelay): getInstance(),
\* configure(maxConcurrent, minDelay) and throttle(op) on it
promiseThrottleHelper(o, mcArg, dArg) ==
  LET mc == argOrDefault(mcArg, DefaultMaxConcurrent)
      d == argOrDefault(dArg, DefaultMinDelay)
  IN /\ opState[o] = "unsubmitted"
     /\ \A p \in Ops : p < o => opState[p] # "unsubmitted"
     /\ thObjects' = IF needsNew(thObjects) THEN thObjects + 1 ELSE thObjects
     /\ maxConcurrent' = mc
     /\ minDelay' = d
     /\ submit(o, mc)
     /\ thLastArgs' = <<mcArg, dArg>>
     /\ UNCHANGED <<now, doneTime, wakeAt, settleTime, opResult,
                    promiseResult, heldBy, thRefs>>
     /\ UNCHANGED otherThanThrottleAndHelper

\* ------------------------------------------------------------------------
\* resolvePackageVersion called on its own (baseMarshall.js)
\* ------------------------------------------------------------------------
ResolveIdle ==
  /\ rvSpec = ""
  /\ rvData = NoPackageData
  /\ rvAnswer = NoPackageData
  /\ rvPc = "idle"
  /\ rvCall = 0
  /\ rvResult = Undefined

\* resolvePackageVersion is called: for a versionSpec that is not a string
\* of content, or with package data handed in, it resolves at once;
\* otherwise getPackageInfo is called and it waits
resolvePackageVersionCall ==
  /\ rvPc = "idle"
  /\ IF rvSpec = "" \/ rvData.present
       THEN /\ rvResult' = resolvePackageVersion(rvSpec, rvData, rvAnswer)
            /\ rvPc' = "done"
            /\ UNCHANGED <<rvCall, repoVars>>
       ELSE /\ getPackageInfoBody(nextCall, CheckedPackage)
            /\ rvCall' = nextCall
            /\ rvPc' = IF cacheHit(pkgInfoCache, CheckedPackage)
                         THEN "resume" ELSE "fetch"
            /\ UNCHANGED rvResult
  /\ UNCHANGED <<rvSpec, rvData, rvAnswer>>
  /\ UNCHANGED otherThanRepoAndResolve

\* the fetch of getPackageInfo answers and is decoded: the package data is
\* stored in pkgInfoCache
resolvePackageVersionFetched ==
  /\ rvPc = "fetch"
  /\ fetchThen(rvCall, decoded(rvAnswer))
  /\ rvPc' = "resume"
  /\ UNCHANGED <<rvSpec, rvData, rvAnswer, rvCall, rvResult>>
  /\ UNCHANGED otherThanRepoAndResolve

\* resolvePackageVersion goes on with the package data of getPackageInfo
\* and resolves
resolvePackageVersionResumes ==
  /\ rvPc = "resume"
  /\ rvResult' = resolvePackageVersion(rvSpec, rvData, rvAnswer)
  /\ rvPc' = "done"
  /\ UNCHANGED <<rvSpec, rvData, rvAnswer, rvCall>>
  /\ UNCHANGED otherThanResolve

ThrottlerIdle == ThrottlerConstructed(DefaultMaxConcurrent, DefaultMinDelay)

InitResolve ==
  /\ rvSpec \in DeprecationSpecs
  /\ rvData \in PackageDatas
  /\ rvAnswer \in PackageDatas
  /\ rvPc = "idle"
  /\ rvCall = 0
  /\ rvResult = Undefined
  /\ MarshallIdle
  /\ ThrottlerIdle
  /\ \/ RepoConstructed
     \/ rvAnswer.present /\ PackageFetchedBefore(CheckedPackage, RegistryDoc)
  /\ KeysModuleLoaded
  /\ SigIdle
  /\ AttIdle
  /\ ManifestIdle
  /\ SigCheckIdle
  /\ SemVerIdle
  /\ EnableIdle
  /\ DeprecationIdle
  /\ LevenshteinIdle
  /\ AgeIdle
  /\ AutoContinueIdle
  /\ HelperIdle

NextResolve ==
  \/ resolvePackageVersionCall
  \/ resolvePackageVersionFetched
  \/ resolvePackageVersionResumes

SpecResolve == InitResolve /\ [][NextResolve]_vars

InitHelper ==
  /\ HelperIdle
  /\ ThrottlerIdle
  /\ MarshallIdle
  /\ RepoConstructed
  /\ KeysModuleLoaded
  /\ SigIdle
  /\ AttIdle
  /\ ManifestIdle
  /\ SigCheckIdle
  /\ SemVerIdle
  /\ EnableIdle
  /\ DeprecationIdle
  /\ LevenshteinIdle
  /\ AgeIdle
  /\ AutoContinueIdle
  /\ ResolveIdle

NextHelper ==
  \/ construct
  \/ getInstance
  \/ \E o \in Ops : \E mcArg \in ConcurrentArgs : \E dArg \in DelayArgs :
       promiseThrottleHelper(o, mcArg, dArg)
  \/ \E o \in Ops : \E r \in {"ok", "failed"} : opCompletes(o, r)
  \/ \E o \in Ops : delayElapses(o)
  \/ tick

SpecHelper == InitHelper /\ [][NextHelper]_vars

InitAutoContinue ==
  /\ \E isTTY \in BOOLEAN, timeInSeconds \in 0..MaxSeconds :
       AutoContinueCalled(isTTY, timeInSeconds)
  /\ MarshallIdle
  /\ ThrottlerIdle
  /\ RepoConstructed
  /\ KeysModuleLoaded
  /\ SigIdle
  /\ AttIdle
  /\ ManifestIdle
  /\ SigCheckIdle
  /\ SemVerIdle
  /\ EnableIdle
  /\ DeprecationIdle
  /\ LevenshteinIdle
  /\ AgeIdle
  /\ HelperIdle
  /\ ResolveIdle

NextAutoContinue ==
  \/ \E chunk \in Chunks : keypress(chunk)
  \/ loopTimerFires
  \/ finalTimerFires

SpecAutoContinue == InitAutoContinue /\ [][NextAutoContinue]_vars

InitAge ==
  /\ agVersion \in AgeSpecs
  /\ agNow \in Nows
  /\ agData \in AgeDatas(agNow)
  /\ agOutcome = NotValidated
  /\ agPc = "idle"
  /\ agCall = 0
  /\ agRead = NaN
  /\ agTicks = 0
  /\ MarshallIdle
  /\ ThrottlerIdle
  /\ \/ RepoConstructed
     \/ agData.present /\ PackageFetchedBefore(CheckedPackage, RegistryDoc)
  /\ KeysModuleLoaded
  /\ SigIdle
  /\ AttIdle
  /\ ManifestIdle
  /\ SigCheckIdle
  /\ SemVerIdle
  /\ EnableIdle
  /\ DeprecationIdle
  /\ LevenshteinIdle
  /\ AutoContinueIdle
  /\ HelperIdle
  /\ ResolveIdle

NextAge ==
  \/ validateAge
  \/ validateAgeFetched
  \/ validateAgeResumes
  \/ validateAgeResolved
  \/ clockAdvances

SpecAge == InitAge /\ [][NextAge]_vars

InitLevenshtein ==
  /\ lvA \in Strings
  /\ lvB \in CorpusStrings
  /\ lvMax \in {NoMax} \cup 0..MaxDistanceChoice
  /\ lvResult = NoResult
  /\ lvSwapped = NoResult
  /\ MarshallIdle
  /\ ThrottlerIdle
  /\ RepoConstructed
  /\ KeysModuleLoaded
  /\ SigIdle
  /\ AttIdle
  /\ ManifestIdle
  /\ SigCheckIdle
  /\ SemVerIdle
  /\ EnableIdle
  /\ DeprecationIdle
  /\ AgeIdle
  /\ AutoContinueIdle
  /\ HelperIdle
  /\ ResolveIdle

NextLevenshtein ==
  \/ distanceCall
  \/ swappedCall

SpecLevenshtein == InitLevenshtein /\ [][NextLevenshtein]_vars

InitDeprecation ==
  /\ dpVersion \in DeprecationSpecs
  /\ dpData \in PackageDatas
  /\ dpGitHub \in GitHubAnswers
  /\ dpResolved = Undefined
  /\ dpOutcome = NotValidated
  /\ dpPc = "idle"
  /\ dpCall = 0
  /\ MarshallIdle
  /\ ThrottlerIdle
  /\ \/ RepoConstructed
     \/ dpData.present /\ PackageFetchedBefore(CheckedPackage, RegistryDoc)
  /\ KeysModuleLoaded
  /\ SigIdle
  /\ AttIdle
  /\ ManifestIdle
  /\ SigCheckIdle
  /\ SemVerIdle
  /\ EnableIdle
  /\ LevenshteinIdle
  /\ AgeIdle
  /\ AutoContinueIdle
  /\ HelperIdle
  /\ ResolveIdle

NextDeprecation ==
  \/ validateDeprecation
  \/ validateDeprecationFetched
  \/ validateDeprecationResumes
  \/ validateDeprecationResolved
  \/ validateDeprecationGitHubAnswered
  \/ validateDeprecationGitHubDecoded

SpecDeprecation == InitDeprecation /\ [][NextDeprecation]_vars

InitEnable ==
  /\ enName \in MarshallNames
  /\ enEnv \in [EnvKeys -> EnvValues]
  /\ enStage = "constructed"
  /\ enEntry = FALSE
  /\ enValidated = 0
  /\ MarshallIdle
  /\ ThrottlerIdle
  /\ RepoConstructed
  /\ KeysModuleLoaded
  /\ SigIdle
  /\ AttIdle
  /\ ManifestIdle
  /\ SigCheckIdle
  /\ SemVerIdle
  /\ DeprecationIdle
  /\ LevenshteinIdle
  /\ AgeIdle
  /\ AutoContinueIdle
  /\ HelperIdle
  /\ ResolveIdle

NextEnable ==
  \/ collectTask
  \/ runTask

SpecEnable == InitEnable /\ [][NextEnable]_vars

InitSemVer ==
  /\ gsVersion \in VersionSpecs
  /\ gsInfo \in PackageInfos
  /\ gsResult = NotCalled
  /\ gsPc = "idle"
  /\ gsCall = 0
  /\ MarshallIdle
  /\ ThrottlerIdle
  /\ RepoConstructed \/ PackageFetchedBefore(CheckedPackage, RegistryDoc)
  /\ KeysModuleLoaded
  /\ SigIdle
  /\ AttIdle
  /\ ManifestIdle
  /\ SigCheckIdle
  /\ EnableIdle
  /\ DeprecationIdle
  /\ LevenshteinIdle
  /\ AgeIdle
  /\ AutoContinueIdle
  /\ HelperIdle
  /\ ResolveIdle

NextSemVer ==
  \/ getSemVerCall
  \/ getSemVerInfoFetched
  \/ getSemVerResumes

SpecSemVer == InitSemVer /\ [][NextSemVer]_vars

InitSigCheck ==
  /\ svVersion \in FetchSpecs
  /\ svKeysFetch \in KeysFetches
  /\ svPackument \in PackumentResponses
  /\ svTampered \in BOOLEAN
  /\ svRequested = Undefined
  /\ svOutcome = NotValidated
  /\ svPc = "idle"
  /\ svCall = 0
  /\ svKeys = NoKeys
  /\ MarshallIdle
  /\ ThrottlerIdle
  /\ RepoConstructed
  /\ KeysModuleLoaded \/ \E ks \in KeySets : KeysFetchedBefore(ks)
  /\ SigIdle
  /\ AttIdle
  /\ ManifestIdle
  /\ SemVerIdle
  /\ EnableIdle
  /\ DeprecationIdle
  /\ LevenshteinIdle
  /\ AgeIdle
  /\ AutoContinueIdle
  /\ HelperIdle
  /\ ResolveIdle

NextSigCheck ==
  \/ validateSignatures
  \/ validateKeysAnswered
  \/ validateKeysThen
  \/ validateManifestFetched
  \/ validateManifestDecoded

SpecSigCheck == InitSigCheck /\ [][NextSigCheck]_vars

\* the arguments of a call: a manifest with attestations whose endpoint
\* answers, or one without a dist, without attestations, or a failed fetch
InitAtt ==
  /\ attKeys \in AttKeyLists
  /\ attNow \in IntegratedTimes
  /\ \/ /\ attManifest \in {AttManifest(t, TRUE, TRUE) : t \in IntegratedTimes}
        /\ attResponse \in {Response(TRUE, l) : l \in BundleLists}
     \/ /\ attManifest \in {AttManifest(NoTime, FALSE, FALSE),
                            AttManifest(NoTime, TRUE, FALSE)}
        /\ attResponse = Response(FALSE, <<>>)
     \/ /\ attManifest = AttManifest(NoTime, TRUE, TRUE)
        /\ attResponse = Response(FALSE, <<>>)
  /\ attResult = NotCalled
  /\ attVerifyLog = <<>>
  /\ attPc = "idle"
  /\ attI = 0
  /\ attSubjectLog = <<>>
  /\ MarshallIdle
  /\ ThrottlerIdle
  /\ RepoConstructed
  /\ KeysModuleLoaded
  /\ SigIdle
  /\ ManifestIdle
  /\ SigCheckIdle
  /\ SemVerIdle
  /\ EnableIdle
  /\ DeprecationIdle
  /\ LevenshteinIdle
  /\ AgeIdle
  /\ AutoContinueIdle
  /\ HelperIdle
  /\ ResolveIdle

NextAtt ==
  \/ verifyAttestationsCall
  \/ attestationsFetched
  \/ attestationsDecoded
  \/ sigstoreVerifySettles
  \/ \E version \in {PackageVersion, OtherVersion} :
       \E integrity \in Integrities : manifestAssigned(version, integrity)

SpecAtt == InitAtt /\ [][NextAtt]_vars

InitManifest ==
  /\ mfSpec \in FetchSpecs
  /\ mfResponse \in PackumentResponses
  /\ mfResult = NotCalled
  /\ mfPc = "idle"
  /\ MarshallIdle
  /\ ThrottlerIdle
  /\ RepoConstructed
  /\ KeysModuleLoaded
  /\ SigIdle
  /\ AttIdle
  /\ SigCheckIdle
  /\ SemVerIdle
  /\ EnableIdle
  /\ DeprecationIdle
  /\ LevenshteinIdle
  /\ AgeIdle
  /\ AutoContinueIdle
  /\ HelperIdle
  /\ ResolveIdle

NextManifest ==
  \/ getManifestCall
  \/ getManifestFetched
  \/ getManifestDecoded

SpecManifest == InitManifest /\ [][NextManifest]_vars

InitSig ==
  /\ sigManifest \in Manifests
  /\ sigKeys \in KeyLists
  /\ sigNow \in Stamps
  /\ sigResult = NotCalled
  /\ sigChecks = <<>>
  /\ MarshallIdle
  /\ ThrottlerIdle
  /\ RepoConstructed
  /\ KeysModuleLoaded
  /\ AttIdle
  /\ ManifestIdle
  /\ SigCheckIdle
  /\ SemVerIdle
  /\ EnableIdle
  /\ DeprecationIdle
  /\ LevenshteinIdle
  /\ AgeIdle
  /\ AutoContinueIdle
  /\ HelperIdle
  /\ ResolveIdle

NextSig == verifySignaturesCall

SpecSig == InitSig /\ [][NextSig]_vars

InitRepo ==
  /\ RepoConstructed
  /\ MarshallIdle
  /\ ThrottlerIdle
  /\ KeysModuleLoaded
  /\ SigIdle
  /\ AttIdle
  /\ ManifestIdle
  /\ SigCheckIdle
  /\ SemVerIdle
  /\ EnableIdle
  /\ DeprecationIdle
  /\ LevenshteinIdle
  /\ AgeIdle
  /\ AutoContinueIdle
  /\ HelperIdle
  /\ ResolveIdle

NextRepo ==
  \/ \E c \in Calls : \E p \in Names : getPackageInfo(c, p)
  \/ \E c \in Calls : \E d \in Packuments : fetchResolves(c, d)
  \/ \E c \in Calls : fetchRejects(c)

SpecRepo == InitRepo /\ [][NextRepo]_vars

InitKeys ==
  /\ KeysModuleLoaded
  /\ MarshallIdle
  /\ ThrottlerIdle
  /\ RepoConstructed
  /\ SigIdle
  /\ AttIdle
  /\ ManifestIdle
  /\ SigCheckIdle
  /\ SemVerIdle
  /\ EnableIdle
  /\ DeprecationIdle
  /\ LevenshteinIdle
  /\ AgeIdle
  /\ AutoContinueIdle
  /\ HelperIdle
  /\ ResolveIdle

NextKeys ==
  \/ \E k \in Checks : fetchRegistryKeys(k)
  \/ \E k \in Checks : \E ks \in KeySets : keysFetchResolves(k, ks)
  \/ \E k \in Checks : keysFetchRejects(k)

SpecKeys == InitKeys /\ [][NextKeys]_vars

\* configure(maxConcurrent, minDelay) on a fresh throttler
InitThrottle ==
  /\ \E mc \in 1..MaxConcurrentChoice : \E d \in 0..MaxDelayChoice :
       ThrottlerConstructed(mc, d)
  /\ MarshallIdle
  /\ RepoConstructed
  /\ KeysModuleLoaded
  /\ SigIdle
  /\ AttIdle
  /\ ManifestIdle
  /\ SigCheckIdle
  /\ SemVerIdle
  /\ EnableIdle
  /\ DeprecationIdle
  /\ LevenshteinIdle
  /\ AgeIdle
  /\ AutoContinueIdle
  /\ HelperIdle
  /\ ResolveIdle

NextThrottle ==
  \/ \E o \in Ops : throttle(o)
  \/ \E o \in Ops : \E r \in {"ok", "failed"} : opCompletes(o, r)
  \/ \E o \in Ops : delayElapses(o)
  \/ tick

SpecThrottle == InitThrottle /\ [][NextThrottle]_vars

NextThrottleLive ==
  \/ \E o \in Ops : throttle(o)
  \/ \E o \in Ops : \E r \in {"ok", "failed"} : opCompletes(o, r)
  \/ \E o \in Ops : delayElapses(o)
  \/ timePasses

\* every dispatched operation settles in the end, timers fire, time passes
FairThrottle ==
  /\ \A o \in Ops :
       WF_vars(\E r \in {"ok", "failed"} : opCompletes(o, r))
  /\ \A o \in Ops : WF_vars(delayElapses(o))
  /\ WF_vars(timePasses)

SpecThrottleLive ==
  InitThrottle /\ [][NextThrottleLive]_vars /\ FairThrottle

InitRun ==
  /\ InitMarshall
  /\ ThrottlerIdle
  /\ RepoConstructed
  /\ KeysModuleLoaded
  /\ SigIdle
  /\ AttIdle
  /\ ManifestIdle
  /\ SigCheckIdle
  /\ SemVerIdle
  /\ EnableIdle
  /\ DeprecationIdle
  /\ LevenshteinIdle
  /\ AgeIdle
  /\ AutoContinueIdle
  /\ HelperIdle
  /\ ResolveIdle

NextRun ==
  \/ run
  \/ \E i \in Units : \E o \in Outcomes : validate(i, o)
  \/ \E i \in Units : checkPackageSettles(i)
  \/ runSettles

SpecRun == InitRun /\ [][NextRun]_vars


\* ------------------------------------------------------------------------
\* Properties of BaseMarshall.run
\* ------------------------------------------------------------------------
Count(seq, p) == Cardinality({k \in DOMAIN seq : seq[k].pkg = p})

UnitsOf(p, kind) == {i \in Units : pkgs[i] = p /\ outcome[i].kind = kind}

Threw(i) == outcome[i].kind \in {"warning", "error"}

MessageOf(i) == [pkg |-> pkgs[i], message |-> outcome[i].message]

InSeq(seq, x) == \E k \in DOMAIN seq : seq[k] = x

\* the outcome of unit i is in the result record of the check
Recorded(i) ==
  /\ outcome[i].kind = "return" => data[pkgs[i]] \in DataValues
  /\ outcome[i].kind = "warning" => InSeq(warnings, MessageOf(i))
  /\ outcome[i].kind = "error" => InSeq(errors, MessageOf(i))

\* C1: when run has resolved, validate has settled for every package of the
\* list and its outcome has been recorded; run is never resolved while a
\* unit is still pending.
C1_RunResolvesAfterEveryUnit ==
  runState = "resolved" =>
    \A i \in Units :
      /\ task[i] = "fulfilled"
      /\ outcome[i] # NoOutcome
      /\ Recorded(i)

C1_Witness ==
  /\ runState = "resolved"
  /\ Len(pkgs) >= 2
  /\ \E i, j \in Units : Threw(i) /\ outcome[j].kind = "return"

\* C2: a validate that throws does not stop the other units: run is never
\* rejected, it resolves once every unit was handled, and the step that
\* records a throw leaves every sibling unit and the run promise as they are.
C2_ThrowDoesNotStopSiblings ==
  /\ [](/\ runState # "rejected"
        /\ \A i \in Units : task[i] # "rejected"
        /\ (runState = "running" /\ \A i \in Units : task[i] # "pending")
              => PromiseAll(task) = "resolved")
  /\ [][\A i \in Units :
          (Threw(i) /\ task[i] = "pending" /\ task'[i] # "pending")
            => /\ runState' = runState
               /\ data' = data
               /\ \A j \in Units \ {i} :
                    task'[j] = task[j] /\ outcome'[j] = outcome[j]]_vars

C2_Witness ==
  /\ runState = "resolved"
  /\ \E i, j \in Units :
       /\ outcome[i].kind = "error"
       /\ InSeq(errors, MessageOf(i))
       /\ outcome[j].kind = "return"
       /\ data[pkgs[j]] = outcome[j].value

\* C3: the handler of a unit stores returned data under the package, adds one
\* {pkg, message} entry to warnings for a thrown Warning and one entry to
\* errors for any other throw, and touches nothing else.
C3_OutcomeClassification ==
  [][\A i \in Units :
       (task[i] = "pending" /\ task'[i] # "pending") =>
         /\ outcome[i].kind = "return" =>
              /\ data' = [data EXCEPT ![pkgs[i]] = outcome[i].value]
              /\ errors' = errors
              /\ warnings' = warnings
         /\ outcome[i].kind = "warning" =>
              /\ warnings' = Append(warnings, MessageOf(i))
              /\ errors' = errors
              /\ data' = data
         /\ outcome[i].kind = "error" =>
              /\ errors' = Append(errors, MessageOf(i))
              /\ warnings' = warnings
              /\ data' = data]_vars

C3_Witness ==
  /\ \E i \in Units : outcome[i].kind = "warning" /\ InSeq(warnings, MessageOf(i))
  /\ \E i \in Units : outcome[i].kind = "error" /\ InSeq(errors, MessageOf(i))
  /\ \E i \in Units :
       /\ outcome[i].kind = "return"
       /\ task[i] = "fulfilled"
       /\ data[pkgs[i]] = outcome[i].value

\* C4: when run has resolved, validate was invoked once for every package of
\* the list, and every package has as many entries in errors as units of it
\* threw an error, as many in warnings as units of it threw a Warning, none
\* for the units that passed: one message per throwing unit, in one list.
C4_ExactlyOneOutcomePerUnit ==
  runState = "resolved" =>
    /\ \A i \in Units : validateCalls[i] = 1 /\ outcome[i] # NoOutcome
    /\ \A p \in Names :
         /\ Count(errors, p) = Cardinality(UnitsOf(p, "error"))
         /\ Count(warnings, p) = Cardinality(UnitsOf(p, "warning"))
    /\ Len(errors) + Len(warnings) = Cardinality({i \in Units : Threw(i)})

C4_Witness ==
  /\ runState = "resolved"
  /\ Len(pkgs) = MaxPkgs
  /\ Len(errors) >= 1
  /\ Len(warnings) >= 1
  /\ \E i \in Units : outcome[i].kind = "return"

\* ------------------------------------------------------------------------
\* Properties of PromiseThrottler
\* ------------------------------------------------------------------------
Pos(seq, x) == CHOOSE k \in DOMAIN seq : seq[k] = x

HoldsSlot(o) == opState[o] \in {"running", "delaying"}

Duration(o) == doneTime[o] - startTime[o]

\* C5: never more than maxConcurrent operations hold a slot, and the running
\* count never exceeds maxConcurrent.
C5_AtMostMaxConcurrent ==
  /\ runningCount <= maxConcurrent
  /\ Cardinality({o \in Ops : HoldsSlot(o)}) <= maxConcurrent

C5_Witness ==
  /\ runningCount = maxConcurrent
  /\ Len(queue) >= 1
  /\ \E o \in Ops : opState[o] = "settled" /\ promiseResult[o] = "failed"
  /\ Cardinality({o \in Ops : HoldsSlot(o)}) = maxConcurrent

\* C6: with maxConcurrent = 1 the function of a later operation is not
\* invoked before every earlier one has settled, and it is invoked in the
\* step in which the operation ahead of it settles.
C6_SecondWaitsForFirst ==
  /\ [](maxConcurrent = 1 =>
          \A a, b \in Ops : (a < b /\ Invoked(b)) => opState[a] = "settled")
  /\ [][maxConcurrent = 1 =>
          \A a \in Ops :
            (opState[a] # "settled" /\ opState'[a] = "settled" /\ queue # <<>>)
              => opState'[Head(queue)] = "running"]_vars

C6_Witness ==
  /\ maxConcurrent = 1
  /\ opState[1] = "settled"
  /\ heldBy[2] = 1
  /\ Invoked(2)

\* C7: an operation that settles, failed or not, gives up its slot: the
\* running count drops by one or, when an operation is queued, the head of
\* the queue is dispatched into the slot.
C7_FailureReleasesSlot ==
  [][\A o \in Ops :
       (opState[o] # "settled" /\ opState'[o] = "settled") =>
         IF queue = <<>>
           THEN runningCount' = runningCount - 1
           ELSE /\ runningCount' = runningCount
                /\ queue' = Tail(queue)
                /\ opState'[Head(queue)] = "running"]_vars

C7_Witness ==
  \E a, b \in Ops :
    /\ opState[a] = "settled"
    /\ promiseResult[a] = "failed"
    /\ heldBy[b] = a
    /\ opState[b] = "settled"

\* C8: queued operations are dispatched in the order they were enqueued.
C8_QueueIsFifo ==
  \A i, j \in DOMAIN enqueued :
    (i < j /\ Invoked(enqueued[j])) =>
      /\ Invoked(enqueued[i])
      /\ Pos(dispatched, enqueued[i]) < Pos(dispatched, enqueued[j])

C8_Witness ==
  /\ Len(enqueued) >= 2
  /\ \A i \in DOMAIN enqueued : Invoked(enqueued[i])

\* C9: the promise returned by throttle settles no earlier than minDelay
\* after the dispatch of its operation, and at the very time the operation
\* settles when the operation took at least minDelay.
C9_SettlesAfterMinDelay ==
  \A o \in Ops :
    opState[o] = "settled" =>
      /\ settleTime[o] >= startTime[o] + minDelay
      /\ Duration(o) >= minDelay => settleTime[o] = doneTime[o]

C9_Witness ==
  /\ minDelay > 0
  /\ \E o \in Ops : opState[o] = "settled" /\ Duration(o) < minDelay
  /\ \E o \in Ops : opState[o] = "settled" /\ Duration(o) >= minDelay

\* C10 as stated: every dispatch after the first is at least minDelay after
\* the dispatch before it.
C10_EveryDispatchSpaced ==
  \A k \in 2..Len(dispatched) :
    startTime[dispatched[k]] >= startTime[dispatched[k - 1]] + minDelay

\* C10 amended: an operation that takes over a slot from the queue starts no
\* sooner than minDelay after the operation that held the slot was
\* dispatched, and at the very time that operation settled when it took at
\* least minDelay; dispatches into different slots are not spaced.
C10_SlotHandoverSpaced ==
  \A b \in Ops :
    heldBy[b] # 0 =>
      /\ startTime[b] >= startTime[heldBy[b]] + minDelay
      /\ Duration(heldBy[b]) >= minDelay => startTime[b] = doneTime[heldBy[b]]

C10_Witness ==
  /\ minDelay > 0
  /\ \E b \in Ops : heldBy[b] # 0 /\ Duration(heldBy[b]) < minDelay
  /\ \E b \in Ops : heldBy[b] # 0 /\ Duration(heldBy[b]) >= minDelay


\* ------------------------------------------------------------------------
\* Properties of PackageRepoUtils.getPackageInfo and of the registry key set
\* ------------------------------------------------------------------------

\* C11: at most one network fetch is issued per package name.
C11_AtMostOneFetchPerPackage ==
  \A p \in Names : fetchCount[p] <= 1

\* C12: a getPackageInfo(p) issued after a call for p completed with data
\* returns that same data and issues no fetch.
C12_LaterCallReturnsCompletedData ==
  \A a, b \in Calls :
    (a \in call[b].after /\ call[a].pkg = call[b].pkg /\ call[b].state = "done")
      => call[b].value = call[a].value /\ ~call[b].fetched

\* C13: the registry key set is fetched at most once and every check that
\* obtained keys obtained the same key set.
C13_KeysFetchedOnce ==
  /\ keysFetches <= 1
  /\ \A j, k \in Checks :
       (keysCall[j].state = "done" /\ keysCall[k].state = "done")
         => keysCall[j].keys = keysCall[k].keys

\* ------------------------------------------------------------------------
\* Properties of NpmRegistry.verifySignatures
\* ------------------------------------------------------------------------
SigCalled == sigResult # NotCalled

Sigs == sigManifest.dist.signatures

HasSignatureList == sigManifest.dist.present /\ sigManifest.dist.hasSignatures

\* the registry has a key with the keyid of the signature
HasKey(sig) == \E i \in DOMAIN sigKeys : sigKeys[i].keyid = sig.keyid

KeyOf(sig) == sigKeys[CHOOSE i \in DOMAIN sigKeys : sigKeys[i].keyid = sig.keyid]

\* the publish time of the manifest, the cutoff when it has none
PublishStamp ==
  IF sigManifest.time = NoTime THEN MISSING_TIME_CUTOFF ELSE sigManifest.time

\* the key of the signature had expired when the package was published
KeyExpired(sig) ==
  HasKey(sig) /\ KeyOf(sig).expires # NoTime /\ KeyOf(sig).expires <= PublishStamp

\* the bytes are a signature of '<package id>:<integrity>' under the key
BytesValid(sig) ==
  /\ HasKey(sig)
  /\ sig.sig.by = KeyOf(sig).pemkey
  /\ sig.sig.over = <<sigManifest.id, sigManifest.dist.integrity>>

Defective(sig) == ~HasKey(sig) \/ KeyExpired(sig) \/ ~BytesValid(sig)

\* the failure of one signature: key lookup, then expiry, then the bytes
DefectCode(sig) ==
  IF ~HasKey(sig) THEN "EMISSINGSIGNATUREKEY"
  ELSE IF KeyExpired(sig) THEN "EEXPIREDSIGNATUREKEY"
  ELSE "EINTEGRITYSIGNATURE"

\* position i is the first signature of the list that fails
FirstDefective(i) ==
  /\ i \in DOMAIN Sigs
  /\ Defective(Sigs[i])
  /\ \A j \in 1..(i - 1) : ~Defective(Sigs[j])

\* C14: when every dist signature has its key in the key set, the key had
\* not expired at the publish time and the bytes are valid for
\* '<package id>:<integrity>', verifySignatures resolves with the input
\* manifest, unchanged, carrying the full signature list.
C14_ValidSignaturesVerify ==
  (SigCalled /\ HasSignatureList /\ \A i \in DOMAIN Sigs : ~Defective(Sigs[i]))
    => /\ sigResult.status = "ok"
       /\ sigResult.value = <<sigManifest, Sigs>>

C14_Witness ==
  /\ sigResult.status = "ok"
  /\ Len(Sigs) = MaxSigs
  /\ \E i, j \in DOMAIN Sigs : Sigs[i].keyid # Sigs[j].keyid
  /\ \E i \in DOMAIN Sigs : KeyOf(Sigs[i]).expires # NoTime
  /\ sigResult.value[2] = Sigs

\* C15 as stated: a signature that does not verify under its key makes
\* verifySignatures fail with InvalidSignature, whatever the other signatures.
C15_InvalidSignatureAlways ==
  (SigCalled /\ HasSignatureList
     /\ \E i \in DOMAIN Sigs : HasKey(Sigs[i]) /\ ~BytesValid(Sigs[i]))
    => sigResult.status = "EINTEGRITYSIGNATURE"

\* C15 amended: a signature that does not verify under its key makes
\* verifySignatures fail without a verified manifest; the failure is that
\* of the first failing signature of the list, InvalidSignature when that
\* one has its key, unexpired, and MissingKey or ExpiredKey otherwise.
C15_InvalidSignatureNeverVerifies ==
  (SigCalled /\ HasSignatureList
     /\ \E i \in DOMAIN Sigs : HasKey(Sigs[i]) /\ ~BytesValid(Sigs[i]))
    => /\ sigResult.value = <<>>
       /\ \A i \in DOMAIN Sigs :
            FirstDefective(i) => sigResult.status = DefectCode(Sigs[i])

C15_Witness ==
  /\ sigResult.status = "EINTEGRITYSIGNATURE"
  /\ Len(Sigs) = MaxSigs
  /\ sigManifest.dist.integrity = "sha512-Y"
  /\ \A i \in DOMAIN Sigs : HasKey(Sigs[i]) /\ Sigs[i].sig.by = KeyOf(Sigs[i]).pemkey

\* C16 as stated: a signature whose key had expired at the publish time
\* makes verifySignatures fail with ExpiredKey.
C16_ExpiredKeyAlways ==
  (SigCalled /\ HasSignatureList /\ \E i \in DOMAIN Sigs : KeyExpired(Sigs[i]))
    => sigResult.status = "EEXPIREDSIGNATUREKEY"

\* C16 amended: a signature whose key had expired at the publish time (the
\* manifest's, or the cutoff when it has none) makes verifySignatures fail;
\* with ExpiredKey, valid bytes or not, when no earlier signature of the
\* list fails; ExpiredKey is never raised for a key without an expiry.
C16_ExpiredKeyUnlessEarlierFailure ==
  (SigCalled /\ HasSignatureList) =>
    /\ \A i \in DOMAIN Sigs :
         KeyExpired(Sigs[i]) =>
           /\ sigResult.status # "ok"
           /\ (\A j \in 1..(i - 1) : ~Defective(Sigs[j]))
                => sigResult.status = "EEXPIREDSIGNATUREKEY"
    /\ sigResult.status = "EEXPIREDSIGNATUREKEY" =>
         \E i \in DOMAIN Sigs : KeyExpired(Sigs[i])

C16_Witness ==
  /\ sigResult.status = "EEXPIREDSIGNATUREKEY"
  /\ sigManifest.time = NoTime
  /\ sigNow < MISSING_TIME_CUTOFF
  /\ \E i \in DOMAIN Sigs : KeyExpired(Sigs[i]) /\ BytesValid(Sigs[i])
  /\ \E i \in DOMAIN Sigs : KeyOf(Sigs[i]).expires = MISSING_TIME_CUTOFF

\* ------------------------------------------------------------------------
\* Properties of NpmRegistry.verifyAttestations
\* ------------------------------------------------------------------------
AttCalled == attResult # NotCalled

\* the manifest has attestations and the endpoint answered
AttFetched ==
  attManifest.dist.present /\ attManifest.dist.hasAttestations /\ attResponse.ok

AttBundles == attResponse.attestations

\* the package as the iteration for the bundle at position i read it from
\* the manifest; for a bundle the loop never reached, the package as the
\* manifest stood when the call settled
SubjectSeen(i) ==
  IF i <= Len(attSubjectLog) THEN attSubjectLog[i] ELSE subjectRead(attManifest)

\* the statement subject is not the package: another purl or another digest
SubjectWrong(i) ==
  \/ AttBundles[i].subject.name # SubjectSeen(i).purl
  \/ AttBundles[i].subject.sha512 # SubjectSeen(i).digest

Keyed(b) == b.keyid # NoKeyId

BundleHasKey(b) == \E i \in DOMAIN attKeys : attKeys[i].keyid = b.keyid

BundleKey(b) == attKeys[CHOOSE i \in DOMAIN attKeys : attKeys[i].keyid = b.keyid]

\* the key of the bundle had expired at the bundle's integrated time
BundleKeyExpired(b) ==
  /\ Keyed(b) /\ BundleHasKey(b)
  /\ BundleKey(b).expires # NoTime
  /\ BundleKey(b).expires <= b.integratedTime

KeyFault(b) == Keyed(b) /\ (~BundleHasKey(b) \/ BundleKeyExpired(b))

BundleDefective(i) ==
  KeyFault(AttBundles[i]) \/ SubjectWrong(i) \/ ~AttBundles[i].proofOk

NoEarlierFailure(i) == \A j \in 1..(i - 1) : ~BundleDefective(j)

\* some bundle carries a keyid that has a registry key
SomeKeyMatches ==
  \E i \in DOMAIN AttBundles : Keyed(AttBundles[i]) /\ BundleHasKey(AttBundles[i])

\* sigstore.verify was called for the bundle at position i
ProofChecked(i) == \E n \in DOMAIN attVerifyLog : attVerifyLog[n].bundle = i

\* C17 as stated: a bundle whose subject is not the package makes
\* verifyAttestations fail with SubjectMismatch, and sigstore.verify is not
\* called for that bundle.
C17_SubjectMismatchAlways ==
  (AttCalled /\ AttFetched) =>
    \A i \in DOMAIN AttBundles :
      SubjectWrong(i) =>
        attResult.status = "EATTESTATIONSUBJECT" /\ ~ProofChecked(i)

\* C17 amended: a bundle whose subject is not the package makes
\* verifyAttestations fail and sigstore.verify is never called for it; the
\* failure is SubjectMismatch, whether the proof would verify or not, when
\* some bundle keyid has a registry key, no earlier bundle fails and the
\* bundle's own key checks pass.
C17_SubjectCheckedBeforeProof ==
  (AttCalled /\ AttFetched) =>
    \A i \in DOMAIN AttBundles :
      SubjectWrong(i) =>
        /\ attResult.status # "ok"
        /\ ~ProofChecked(i)
        /\ (SomeKeyMatches /\ NoEarlierFailure(i) /\ ~KeyFault(AttBundles[i]))
             => attResult.status = "EATTESTATIONSUBJECT"

C17_Witness ==
  /\ attResult.status = "EATTESTATIONSUBJECT"
  /\ Len(AttBundles) = 2
  /\ ProofChecked(1)
  /\ AttBundles[2].subject.sha512 # SubjectSeen(2).digest
  /\ AttBundles[2].proofOk
  /\ ~ProofChecked(2)

\* C18 as stated: a bundle with a keyid that has no registry key makes
\* verifyAttestations fail with MissingKey, and one whose key had expired at
\* its integrated time makes it fail with ExpiredKey.
C18_KeyFaultAlways ==
  (AttCalled /\ AttFetched) =>
    \A i \in DOMAIN AttBundles :
      LET b == AttBundles[i]
      IN /\ (Keyed(b) /\ ~BundleHasKey(b))
              => attResult.status = "EMISSINGSIGNATUREKEY"
         /\ BundleKeyExpired(b) => attResult.status = "EEXPIREDSIGNATUREKEY"

\* C18 amended: a bundle with a keyid needs a registry key with that keyid,
\* not expired at the bundle's integrated time, for verifyAttestations to
\* succeed; when no earlier bundle fails the failure is MissingKey for the
\* absent key and ExpiredKey for the expired one; ExpiredKey is raised only
\* for a key expired at the integrated time of its bundle.
C18_KeyCheckedAtIntegratedTime ==
  (AttCalled /\ AttFetched) =>
    /\ \A i \in DOMAIN AttBundles :
         LET b == AttBundles[i]
         IN /\ KeyFault(b) => attResult.status # "ok"
            /\ (Keyed(b) /\ ~BundleHasKey(b) /\ NoEarlierFailure(i))
                 => attResult.status = "EMISSINGSIGNATUREKEY"
            /\ (BundleKeyExpired(b) /\ NoEarlierFailure(i))
                 => attResult.status = "EEXPIREDSIGNATUREKEY"
    /\ attResult.status = "EEXPIREDSIGNATUREKEY" =>
         \E i \in DOMAIN AttBundles : BundleKeyExpired(AttBundles[i])

C18_Witness ==
  /\ attResult.status = "EEXPIREDSIGNATUREKEY"
  /\ attManifest.time < MISSING_TIME_CUTOFF
  /\ attNow < MISSING_TIME_CUTOFF
  /\ Len(AttBundles) = 2
  /\ ProofChecked(1)
  /\ BundleKeyExpired(AttBundles[2])
  /\ AttBundles[2].integratedTime > attManifest.time

\* C19 as stated: when every bundle passes its checks, a bundle without a
\* keyid among them, verifyAttestations succeeds, and sigstore.verify gets
\* no key selector for a bundle without a keyid.
C19_KeylessAlwaysAccepted ==
  (AttCalled /\ AttFetched
     /\ (\E i \in DOMAIN AttBundles : ~Keyed(AttBundles[i]))
     /\ \A i \in DOMAIN AttBundles : ~BundleDefective(i))
    => /\ attResult.status = "ok"
       /\ \A n \in DOMAIN attVerifyLog :
            ~Keyed(AttBundles[attVerifyLog[n].bundle])
              => attVerifyLog[n].keySelector = NoSelector

\* C19 amended: when every bundle passes its checks, a bundle without a
\* keyid among them, and some bundle carries a keyid that has a registry
\* key, verifyAttestations succeeds, and sigstore.verify is called for every
\* bundle, without a key selector for a bundle without a keyid; when no
\* bundle keyid has a registry key, verifyAttestations fails with MissingKey
\* before any bundle is checked.
C19_KeylessAcceptedBesideKeyed ==
  (AttCalled /\ AttFetched
     /\ (\E i \in DOMAIN AttBundles : ~Keyed(AttBundles[i]))
     /\ \A i \in DOMAIN AttBundles : ~BundleDefective(i))
    => /\ SomeKeyMatches =>
            /\ attResult.status = "ok"
            /\ attResult.value = <<attManifest, attManifest.dist.attestations>>
            /\ \A i \in DOMAIN AttBundles : ProofChecked(i)
            /\ \A n \in DOMAIN attVerifyLog :
                 ~Keyed(AttBundles[attVerifyLog[n].bundle])
                   => attVerifyLog[n].keySelector = NoSelector
       /\ ~SomeKeyMatches =>
            /\ attResult.status = "EMISSINGSIGNATUREKEY"
            /\ attVerifyLog = <<>>

C19_Witness ==
  /\ attResult.status = "ok"
  /\ Len(AttBundles) = 2
  /\ ~Keyed(AttBundles[1])
  /\ Keyed(AttBundles[2])
  /\ Len(attVerifyLog) = 2
  /\ attVerifyLog[1].keySelector = NoSelector
  /\ attVerifyLog[2].keySelector = BundleKey(AttBundles[2]).pemkey

\* ------------------------------------------------------------------------
\* Properties of NpmRegistry.getManifest
\* ------------------------------------------------------------------------
ManifestCalled == mfResult # NotCalled

\* the endpoint answered with a packument that has versions
PackumentFetched == mfResponse.ok /\ mfResponse.packument.hasVersions

\* major, minor and patch of a version
SemVerOf(v) ==
  CASE v = "3.0.0" -> <<3, 0, 0>>
    [] v = "3.1.0" -> <<3, 1, 0>>
    [] v = "4.0.0" -> <<4, 0, 0>>
    [] v = "9.9.9" -> <<9, 9, 9>>

SemVerLeq(a, b) ==
  \/ a[1] < b[1]
  \/ a[1] = b[1] /\ a[2] < b[2]
  \/ a[1] = b[1] /\ a[2] = b[2] /\ a[3] <= b[3]

CaretRanges == {"^3.0.0", "^4.0.0", "^9.0.0"}

CaretBase(range) ==
  CASE range = "^3.0.0" -> <<3, 0, 0>>
    [] range = "^4.0.0" -> <<4, 0, 0>>
    [] range = "^9.0.0" -> <<9, 0, 0>>

\* the version satisfies the specifier read as a semver range
Satisfies(v, fetchSpec) ==
  IF fetchSpec \in CaretRanges
    THEN /\ SemVerOf(v)[1] = CaretBase(fetchSpec)[1]
         /\ SemVerLeq(CaretBase(fetchSpec), SemVerOf(v))
  ELSE v = fetchSpec

Satisfying(fetchSpec, versions) == {v \in versions : Satisfies(v, fetchSpec)}

MaxSatisfying(fetchSpec, versions) ==
  CHOOSE v \in Satisfying(fetchSpec, versions) :
    \A w \in Satisfying(fetchSpec, versions) : SemVerLeq(SemVerOf(w), SemVerOf(v))

\* the version a dist-tag of the packument points to
TagTarget(fetchSpec, tags) ==
  IF fetchSpec = "latest" THEN tags.latest
  ELSE IF fetchSpec = "beta" THEN tags.beta
  ELSE Undefined

\* C20: getManifest resolves a specifier that is a dist-tag through the
\* dist-tags of the packument, and a version or caret range to the maximum
\* key of versions that satisfies it.
C20_ResolvesTagsAndRanges ==
  (ManifestCalled /\ PackumentFetched) =>
    LET packument == mfResponse.packument
        target == TagTarget(mfSpec, packument.distTags)
    IN /\ (target # Undefined /\ target \in packument.versions)
            => mfResult.status = "ok" /\ mfResult.value[1] = target
       /\ (mfSpec \in CaretRanges \cup VersionKeys \cup {"9.9.9"}
             /\ Satisfying(mfSpec, packument.versions) # {})
            => /\ mfResult.status = "ok"
               /\ mfResult.value[1] = MaxSatisfying(mfSpec, packument.versions)

\* the version getManifest looks up: dist-tags.latest for 'latest', no
\* specifier and '*', the specifier itself otherwise
LookedUp ==
  IF mfSpec \in {"latest", "", "*"} THEN mfResponse.packument.distTags.latest
  ELSE mfSpec

\* C21: getManifest fails with NotFound whenever the version it looks up is
\* not a key of versions, also when the packument has no versions, and a
\* manifest it returns is that of a key of versions.
C21_AbsentVersionNotFound ==
  (ManifestCalled /\ mfResponse.ok) =>
    LET packument == mfResponse.packument
    IN /\ (~packument.hasVersions \/ LookedUp \notin packument.versions)
            => mfResult.status = "not found" /\ mfResult.value = <<>>
       /\ mfResult.status = "ok"
            => packument.hasVersions /\ mfResult.value[1] \in packument.versions

C21_Witness ==
  /\ mfResult.status = "not found"
  /\ mfSpec = "9.9.9"
  /\ mfResponse.packument.hasVersions
  /\ mfResponse.packument.versions = VersionKeys

\* ------------------------------------------------------------------------
\* Properties of the signatures check
\* ------------------------------------------------------------------------
SigCheckSettled == svOutcome # NotValidated

\* validate obtained the registry keys, from the cache or from its fetch
KeysObtained == svKeys # NoKeys

\* the keys were obtained and the packument endpoint answers with versions
SigCheckFetched ==
  KeysObtained /\ svPackument.ok /\ svPackument.packument.hasVersions

\* C22: the signatures check hands getManifest a concrete version: for a
\* dist-tag the version it points to, for a range the highest satisfying
\* version, whose signatures are then verified; the check does not end with
\* 'Version <range> not found' while a version satisfies the range.
C22_ResolvesBeforeManifest ==
  (SigCheckSettled /\ SigCheckFetched) =>
    LET packument == svPackument.packument
        target == TagTarget(svVersion, packument.distTags)
    IN /\ (target # Undefined /\ target \in packument.versions)
            => svRequested = target
       /\ (svVersion \in CaretRanges
             /\ Satisfying(svVersion, packument.versions) # {})
            => /\ svRequested = MaxSatisfying(svVersion, packument.versions)
               /\ svOutcome # validateCatch("not found")

\* ------------------------------------------------------------------------
\* Properties of PackageRepoUtils.getSemVer
\* ------------------------------------------------------------------------
SemVerCalled == gsResult # NotCalled

\* the version the dist-tag named like the specifier points to
TagNamed(spec, info) ==
  IF info.hasDistTags THEN TagTarget(spec, info.distTags) ELSE Undefined

\* the valid versions of the package info that satisfy the specifier as a range
InRange(spec, info) ==
  {v \in info.versions \cap ValidVersions :
     \/ spec \in {"", "*"}
     \/ spec \in CaretRanges \cup ValidVersions /\ Satisfies(v, spec)}

Highest(versions) ==
  CHOOSE v \in versions : \A w \in versions : SemVerLeq(SemVerOf(w), SemVerOf(v))

\* what the specifier resolves to: itself, the dist-tag's version, the
\* highest version in range, or the failure 'Could not find dist-tag'
ExpectedSemVer(spec, info) ==
  IF spec \in ValidVersions THEN Resolved(spec)
  ELSE IF TagNamed(spec, info) # Undefined THEN Resolved(TagNamed(spec, info))
  ELSE IF InRange(spec, info) # {} THEN Resolved(Highest(InRange(spec, info)))
  ELSE Thrown("Could not find dist-tag")

\* C23 as stated: getSemVer returns the specifier itself when it is a valid
\* version, otherwise the version of the dist-tag of that name, otherwise the
\* highest valid version in range, otherwise fails with 'Could not find
\* dist-tag'.
C23_ResolvesOrDistTagError ==
  SemVerCalled => gsResult = ExpectedSemVer(gsVersion, gsInfo)

\* C23 amended: as stated for a package info that has dist-tags; for one
\* without dist-tags a specifier that is not a valid version fails with
\* 'Could not find dist-tags', whatever the versions are.
C23_ResolvesWhenDistTagsPresent ==
  SemVerCalled =>
    IF gsInfo.hasDistTags \/ gsVersion \in ValidVersions
      THEN gsResult = ExpectedSemVer(gsVersion, gsInfo)
    ELSE gsResult = Thrown("Could not find dist-tags")

C23_Witness ==
  /\ gsResult = Resolved("3.1.0")
  /\ gsVersion = "^3.0.0"
  /\ gsInfo.hasDistTags
  /\ gsInfo.versions = InfoVersionKeys

\* ------------------------------------------------------------------------
\* Properties of BaseMarshall.run on an empty package list
\* ------------------------------------------------------------------------

\* C25: run on an empty package list invokes validate, the only place of
\* network calls, for no package, records no error, warning or data, is
\* never rejected, and resolves without waiting for anything.
C25_EmptyListEmptyReport ==
  pkgs = <<>> =>
    /\ runState \in {"idle", "running", "resolved"}
    /\ runState = "running" => ENABLED runSettles
    /\ DOMAIN validateCalls = {}
    /\ DOMAIN outcome = {}
    /\ errors = <<>>
    /\ warnings = <<>>
    /\ \A n \in Names : data[n] = NoData

C25_Witness == pkgs = <<>> /\ runState = "resolved"

\* ------------------------------------------------------------------------
\* Properties of BaseMarshall.isEnabled
\* ------------------------------------------------------------------------

\* MARSHALL_DISABLE_<check name in upper case> has a non-empty value
DisabledByEnv ==
  /\ enEnv[<<"MARSHALL_DISABLE_", toUpperCase(enName)>>] # Undefined
  /\ enEnv[<<"MARSHALL_DISABLE_", toUpperCase(enName)>>] # ""

\* C24: a check is disabled exactly when MARSHALL_DISABLE_<NAME> has a
\* non-empty value; validate of a disabled check is never invoked and no
\* result record exists for it.
C24_DisabledExactlyByEnv ==
  /\ enStage # "constructed" => (enStage = "skipped" <=> DisabledByEnv)
  /\ DisabledByEnv => enValidated = 0 /\ ~enEntry
  /\ enStage = "ran" => enEntry /\ enValidated = 1

C24_Witness ==
  /\ enStage = "skipped"
  /\ enName = "signatures"
  /\ enEnv[<<"MARSHALL_DISABLE_", "SIGNATURES">>] = "0"
  /\ enEnv[<<"MARSHALL_DISABLE_", "PROVENANCE">>] = Undefined

\* ------------------------------------------------------------------------
\* Properties of the deprecation check
\* ------------------------------------------------------------------------
DeprecationSettled == dpOutcome # NotValidated

\* the registry data of the package, or that of the resolved version, is absent
DataAbsent ==
  \/ ~dpData.present
  \/ dpResolved = Undefined
  \/ ~dpData.hasVersions
  \/ dpResolved \notin dpData.versions

\* C26: with the registry data of the package or of the resolved version
\* absent the check ends with a Warning, never with Pass; and it reports
\* deprecated only for a version flagged deprecated in the registry data,
\* archived only when the GitHub API says so.
C26_AbsentDataWarns ==
  DeprecationSettled =>
    /\ DataAbsent => dpOutcome.kind = "warning"
    /\ dpOutcome = ErrorOf(<<"Package deprecated", dpResolved>>)
         => dpResolved \in dpData.deprecated \cap dpData.versions
    /\ dpOutcome = ErrorOf(<<"Package repository has been archived on GitHub">>)
         => dpData.repository = "github" /\ dpGitHub = "archived"

\* ------------------------------------------------------------------------
\* Properties of levenshteinDistance
\* ------------------------------------------------------------------------

Least(S) == CHOOSE m \in S : \A x \in S : m <= x

\* the edit distances of the prefix of a of length i to every prefix of b,
\* as the sequence whose element j + 1 is the distance to the prefix of
\* length j: a prefix is turned into another by deleting its last letter,
\* by inserting the other's last letter, or by substituting the last letter
RECURSIVE PrefixDistances(_, _, _)
RECURSIVE ExtendPrefix(_, _, _, _, _)
ExtendPrefix(a, b, i, shorter, sofar) ==
  IF Len(sofar) > Len(b) THEN sofar
  ELSE LET j == Len(sofar)
       IN ExtendPrefix(a, b, i, shorter,
            Append(sofar,
                   Least({shorter[j + 1] + 1, sofar[j] + 1,
                          shorter[j] + (IF a[i] = b[j] THEN 0 ELSE 1)})))

PrefixDistances(a, b, i) ==
  IF i = 0 THEN [j \in 1..(Len(b) + 1) |-> j - 1]
  ELSE ExtendPrefix(a, b, i, PrefixDistances(a, b, i - 1), <<i>>)

\* the Levenshtein edit distance of a and b
EditDistance(a, b) == PrefixDistances(a, b, Len(a))[Len(b) + 1]

\* C27: with maxDistance k the value returned is at least k whenever the
\* edit distance is at least k, is the edit distance whenever that is less
\* than k, and is never greater than the edit distance.
C27_MaxDistanceBound ==
  (lvMax # NoMax /\ lvResult # NoResult) =>
    LET d == EditDistance(lvA, lvB)
    IN /\ d >= lvMax => lvResult >= lvMax
       /\ d < lvMax => lvResult = d
       /\ lvResult <= d

C27_Witness ==
  /\ lvMax = 2
  /\ lvResult = 2
  /\ Len(lvA) = Len(lvB)
  /\ EditDistance(lvA, lvB) = MaxStr

\* C28: without maxDistance the distance of a to b is the distance of b to a.
C28_Symmetric ==
  (lvMax = NoMax /\ lvResult # NoResult /\ lvSwapped # NoResult)
    => lvResult = lvSwapped

C28_Witness ==
  /\ lvMax = NoMax
  /\ lvResult > 1
  /\ lvSwapped = lvResult
  /\ Len(lvA) > Len(lvB)
  /\ Len(lvB) > 0

\* C29: without maxDistance the value returned is the Levenshtein edit
\* distance: 0 for identical strings, and the length of the other string when
\* one of the two is empty.
C29_IsEditDistance ==
  (lvMax = NoMax /\ lvResult # NoResult) =>
    /\ lvResult = EditDistance(lvA, lvB)
    /\ lvA = lvB => lvResult = 0
    /\ lvA = <<>> => lvResult = Len(lvB)
    /\ lvB = <<>> => lvResult = Len(lvA)

C29_Witness ==
  /\ lvMax = NoMax
  /\ lvResult = 3
  /\ Len(lvA) = 3
  /\ Len(lvB) = MaxStr
  /\ lvA[1] # lvB[1]

\* ------------------------------------------------------------------------
\* Properties of the age check
\* ------------------------------------------------------------------------
AgeSettled == agOutcome # NotValidated

NewPackageError == ErrorOf(<<"Detected a newly published package">>)

\* the package has a creation time that is a date
HasCreationTime ==
  agData.present /\ agData.hasTime /\ agData.created.valid

\* 22 days after the creation time lies after now: both as days and
\* milliseconds of the day
YoungerThanThreshold ==
  \/ agData.created.d + 22 > agRead.d
  \/ agData.created.d + 22 = agRead.d /\ agData.created.ms > agRead.ms

\* C30: the new-package Error is raised exactly when now minus the creation
\* time is less than 22 days of milliseconds: not for a package created
\* exactly 22 days ago or earlier, for one created 1 ms later than that, and
\* for one created in the future.
C30_NewPackageExactlyBelowThreshold ==
  AgeSettled =>
    (agOutcome = NewPackageError <=> (HasCreationTime /\ YoungerThanThreshold))

C30_Witness ==
  /\ agOutcome = NewPackageError
  /\ agData.created.d + 22 = agRead.d
  /\ agData.created.ms = agRead.ms + 1
  /\ agVersion = "latest"

\* ------------------------------------------------------------------------
\* Properties of the countdown prompt
\* ------------------------------------------------------------------------
AutoContinueSettled == acResult # Pending

\* a Ctrl+C was among the keys stdin delivered during the countdown
CtrlCReceived ==
  \E n \in 1..Len(acChunks) :
    \E k \in 1..Len(acChunks[n]) : acChunks[n][k] = CtrlC

\* a 'y' or 'Y' was delivered as a chunk of its own
ProceedReceived ==
  \E n \in 1..Len(acChunks) : isProceed(acChunks[n])

\* C31: in a TTY, once Ctrl+C is received during the countdown the call
\* rejects with code USER_ABORT and exit code 1 and never resolves, whatever
\* other keys arrive before or after it; without Ctrl+C it resolves with
\* {name: true}, when the countdown has ended or 'y' was pressed.
C31_CtrlCAlwaysAborts ==
  (acTTY /\ AutoContinueSettled) =>
    /\ CtrlCReceived => acResult = UserAbort
    /\ ~CtrlCReceived =>
         /\ acResult = NameTrue
         /\ acI = 0 \/ acTime = 0 \/ ProceedReceived

\* ------------------------------------------------------------------------
\* Properties of throttle submissions
\* ------------------------------------------------------------------------
\* the step is the submission throttle(o)
Submits(o) == opState[o] = "unsubmitted" /\ opState'[o] # "unsubmitted"

\* C32: throttle(op) invokes op at once, before it returns, when the running
\* count is below maxConcurrent at submission; otherwise it appends op to the
\* queue without invoking it and leaves the running count as it was.
C32_InvokedAtOnceOrEnqueued ==
  [][\A o \in Ops :
       Submits(o) =>
         IF runningCount < maxConcurrent
           THEN /\ dispatched' = Append(dispatched, o)
                /\ opState'[o] = "running"
                /\ startTime'[o] = now
                /\ queue' = queue
           ELSE /\ queue' = Append(queue, o)
                /\ dispatched' = dispatched
                /\ opState'[o] = "queued"
                /\ startTime'[o] = NoTime
                /\ runningCount' = runningCount]_vars

C32_Witness ==
  \E o, p \in Ops :
    /\ opState[o] = "queued"
    /\ queue = <<o>>
    /\ opState[p] = "running"
    /\ dispatched = <<p>>
    /\ runningCount = maxConcurrent

\* the number of times the function of o was invoked
TimesInvoked(o) ==
  Cardinality({i \in DOMAIN dispatched : dispatched[i] = o})

\* C33: provided every dispatched operation settles in the end, every
\* operation submitted to throttle is invoked in the end, exactly once, and
\* the promise returned for it settles with the value or error of that
\* operation and of no other.
C33_EverySubmissionSettlesWithOwnResult ==
  /\ [](\A o \in Ops :
          /\ TimesInvoked(o) = (IF Invoked(o) THEN 1 ELSE 0)
          /\ promiseResult[o] # "none" =>
               /\ opState[o] = "settled"
               /\ promiseResult[o] = opResult[o])
  /\ \A o \in Ops :
       (opState[o] # "unsubmitted") ~>
         (TimesInvoked(o) = 1 /\ opState[o] = "settled"
            /\ promiseResult[o] \in {"ok", "failed"})

C33_Witness ==
  /\ \A o \in Ops : opState[o] = "settled"
  /\ Len(enqueued) >= 1
  /\ \E o, p \in Ops : promiseResult[o] = "ok" /\ promiseResult[p] = "failed"
  /\ \E o \in Ops : wakeAt[o] # NoTime

\* ------------------------------------------------------------------------
\* Properties of the shared throttler instance
\* ------------------------------------------------------------------------
HelperCalled == thLastArgs # NoArgs

\* C34: all callers share one PromiseThrottler instance (the constructor and
\* getInstance give back the same object, hence one running count and one
\* queue), and every promiseThrottleHelper call sets maxConcurrent and
\* minDelay of that instance to its arguments, 5 and 0 when left out: the
\* limits in force are those of the latest call.
C34_OneInstanceLatestLimits ==
  /\ thObjects <= 1
  /\ \A i \in DOMAIN thRefs : thRefs[i] = 1
  /\ HelperCalled =>
       /\ thObjects = 1
       /\ maxConcurrent = (IF thLastArgs[1] = Omitted THEN 5 ELSE thLastArgs[1])
       /\ minDelay = (IF thLastArgs[2] = Omitted THEN 0 ELSE thLastArgs[2])

C34_Witness ==
  /\ Len(thRefs) >= 2
  /\ thLastArgs = <<1, Omitted>>
  /\ runningCount = 2
  /\ Len(queue) = 1

\* ------------------------------------------------------------------------
\* Properties of the outcome of the signatures check
\* ------------------------------------------------------------------------
UnableToVerify ==
  /\ svOutcome.kind = "warning"
  /\ Len(svOutcome.message) = 2
  /\ svOutcome.message[1] = "Unable to verify package signature on registry"

SignedWithExpiredKey ==
  svOutcome = [kind |-> "warning",
               message |-> <<"Package is signed with an expired key">>]

ObtainedKeys == IF KeysObtained THEN registryKeysOf(svKeys) ELSE <<>>

\* the registry key set has a key for k1, the key the manifests are signed with
SigningKeys == {i \in DOMAIN ObtainedKeys : ObtainedKeys[i].keyid = "k1"}

\* the publish time of the version: that of the packument, or the cutoff
PublishTime ==
  IF svPackument.packument.time # NoTime THEN svPackument.packument.time
  ELSE MISSING_TIME_CUTOFF

\* the signing key had expired when the version was published
SigningKeyExpired ==
  \E i \in SigningKeys :
    ObtainedKeys[i].expires # NoTime /\ ObtainedKeys[i].expires <= PublishTime

\* C35: the signatures check never ends with a blocking Error: a failure to
\* fetch the registry keys, to fetch or resolve the manifest, or to verify a
\* signature (missing key, invalid signature, no signatures) is reported as
\* Warning 'Unable to verify package signature on registry: ...', and an
\* expired key as Warning 'Package is signed with an expired key'.
C35_FailuresAreWarnings ==
  SigCheckSettled =>
    /\ svOutcome.kind # "error"
    /\ svOutcome.kind = "resolved" \/ UnableToVerify \/ SignedWithExpiredKey
    /\ ~KeysObtained => UnableToVerify
    /\ ~svPackument.ok => UnableToVerify
    /\ KeysObtained /\ SigningKeys = {} => UnableToVerify
    /\ KeysObtained /\ svTampered => svOutcome.kind # "resolved"
    /\ svOutcome.kind = "resolved" =>
         /\ KeysObtained /\ svPackument.ok /\ ~svTampered
         /\ SigningKeys # {} /\ ~SigningKeyExpired
         /\ svOutcome.message[2] # UnsignedVersion
    /\ SignedWithExpiredKey =>
         KeysObtained /\ svPackument.ok /\ SigningKeyExpired

C35_Witness ==
  /\ UnableToVerify
  /\ svOutcome.message[2] = "EMISSINGSIGNATUREKEY"

\* ------------------------------------------------------------------------
\* Properties of the order of the checks of verifySignatures
\* ------------------------------------------------------------------------
\* the check was made for the signature at position i
CheckMade(i, check) == \E n \in DOMAIN sigChecks : sigChecks[n] = <<i, check>>

Examined(i) == \E n \in DOMAIN sigChecks : sigChecks[n][1] = i

\* C36: a signature whose keyid has no key in the registry key set makes
\* verifySignatures fail, with MissingKey before any expiry or cryptographic
\* check is made for it; the failure reported is that of the first signature
\* in list order that fails, and later signatures are not examined.
C36_MissingKeyFirstFailureReported ==
  (SigCalled /\ HasSignatureList) =>
    \A i \in DOMAIN Sigs :
      /\ ~HasKey(Sigs[i]) =>
           /\ sigResult.status # "ok"
           /\ ~CheckMade(i, "expiry") /\ ~CheckMade(i, "verify")
      /\ FirstDefective(i) =>
           /\ sigResult.status = DefectCode(Sigs[i])
           /\ ~HasKey(Sigs[i]) => sigResult.status = "EMISSINGSIGNATUREKEY"
           /\ CheckMade(i, "find")
           /\ \A j \in DOMAIN Sigs : j > i => ~Examined(j)

C36_Witness ==
  /\ SigCalled
  /\ Len(Sigs) = 2
  /\ ~HasKey(Sigs[1])
  /\ HasKey(Sigs[2]) /\ ~BytesValid(Sigs[2])
  /\ sigKeys # <<>>
  /\ sigResult.status = "EMISSINGSIGNATUREKEY"
  /\ sigChecks = << <<1, "find">> >>

\* C37 as stated: with a maxDistance k the value returned does not depend on
\* the order of the two strings, strings of equal length included.
C37_SymmetricWithMaxDistance ==
  (lvMax # NoMax /\ lvResult # NoResult /\ lvSwapped # NoResult)
    => lvResult = lvSwapped

\* C37 amended: with a maxDistance k the value returned does not depend on
\* the order of two strings of different lengths; for strings of equal length
\* the two values are equal when the edit distance is below k, and both are
\* at least k otherwise.
C37_SymmetricUnlessEqualLengthCutOff ==
  (lvMax # NoMax /\ lvResult # NoResult /\ lvSwapped # NoResult) =>
    /\ Len(lvA) # Len(lvB) => lvResult = lvSwapped
    /\ EditDistance(lvA, lvB) < lvMax => lvResult = lvSwapped
    /\ EditDistance(lvA, lvB) >= lvMax =>
         lvResult >= lvMax /\ lvSwapped >= lvMax

C37_Witness ==
  /\ lvMax = 3
  /\ Len(lvA) = 4 /\ Len(lvB) = 4
  /\ lvResult = 3
  /\ lvSwapped = 4

\* C38: verifySignatures resolves only when at least one signature was
\* present and cryptographically verified: a manifest whose dist block or
\* signature list is missing or empty never yields a verified manifest.
C38_VerifiedNeedsASignature ==
  sigResult.status = "ok" =>
    /\ HasSignatureList
    /\ Len(Sigs) >= 1
    /\ \E i \in DOMAIN Sigs : CheckMade(i, "verify") /\ BytesValid(Sigs[i])

\* C39: verifyAttestations resolves only when the fetched collection holds
\* at least one bundle and every bundle of it has passed the subject check
\* and the external proof check; an empty collection never verifies, and a
\* failure of any single bundle fails the whole verification.
C39_VerifiedNeedsEveryBundle ==
  AttCalled =>
    /\ attResult.status = "ok" =>
         /\ AttFetched
         /\ Len(AttBundles) >= 1
         /\ \A i \in DOMAIN AttBundles :
              /\ ~SubjectWrong(i)
              /\ ProofChecked(i)
              /\ AttBundles[i].proofOk
    /\ (AttFetched /\ AttBundles = <<>>) => attResult.status # "ok"
    /\ (AttFetched /\ \E i \in DOMAIN AttBundles : BundleDefective(i))
         => attResult.status # "ok"

C39_Witness ==
  /\ attResult.status = "ok"
  /\ Len(AttBundles) = 2
  /\ \E i \in DOMAIN AttBundles : ~Keyed(AttBundles[i])
  /\ Len(attVerifyLog) = 2

\* ------------------------------------------------------------------------
\* Failed fetches of PackageRepoUtils.getPackageInfo
\* ------------------------------------------------------------------------

\* the step in which call c rejects
Rejects(c) == call[c].state = "fetching" /\ call'[c].state = "rejected"

\* the step changes the promise state of some getPackageInfo call
CallActs == \E c \in Calls : call'[c].state # call[c].state

\* the package name the acting call is about
ActingPkgs == {call'[c].pkg : c \in {b \in Calls : call'[b].state # call[b].state}}

\* C40: a getPackageInfo(p) whose fetch or JSON decoding fails rejects and
\* leaves the cache with no entry for p, so that a later call for p fetches
\* again; no getPackageInfo call, failed or successful, changes the cached
\* entry of another package name.
C40_FailureLeavesNoEntry ==
  [][/\ \A c \in Calls :
          Rejects(c) => ~cacheHit(pkgInfoCache', call[c].pkg)
     /\ CallActs =>
          \A q \in Names \ ActingPkgs : pkgInfoCache'[q] = pkgInfoCache[q]]_vars

=============================================================================
